---- MODULE Spec2Model ----
(***************************************************************************)
(* Model of the vertex/edge/face handle tool of TrenchBroom                *)
(* (Core/Source/Controller/VertexTool.cpp) together with the collaborators *)
(* it drives: the picker hit, the grid, the brush move operation, the undo *)
(* manager and the renderer's figure registry.                             *)
(*                                                                         *)
(* Geometry is reduced to one axis: a brush is the strictly increasing     *)
(* list of its handle positions; handle indices are 0-based as in the      *)
(* source (index -1 is the "gone" sentinel).                               *)
(***************************************************************************)
EXTENDS Integers, Sequences, FiniteSets

VARIABLES
    ndebug,                 \* TRUE iff the build compiles assert() out (NDEBUG)
    violated,               \* TRUE iff a call was made whose assert() condition was false
    m_state,                \* VertexTool::m_state
    m_brush,                \* VertexTool::m_brush (NULL or a brush id)
    m_index,                \* VertexTool::m_index
    m_handleFigure,         \* TRUE iff the pointer is not NULL
    m_selectedHandleFigure, \* TRUE iff the pointer is not NULL
    m_guideFigure,          \* TRUE iff the pointer is not NULL
    figures,                \* renderer: how often each figure kind is registered
    depicted,               \* (brush, index) the selected-handle figures were last updated with
    listeners,              \* number of registered listener triples of this tool
    brushes,                \* document: brush id -> handle positions
    undoDepth,              \* undo manager: begin() calls not yet matched by end()
    initialPoint,           \* out-parameter of doBeginLeftDrag
    referencePoint,         \* in/out-parameter of doLeftDrag (kept by the drag driver)
    applied,                \* sum of the deltas the brush moves of this drag applied
    rejected,               \* TRUE iff a brush move of this drag was rejected (moved = false)
    dragBase,               \* the dragged brush as it was when the drag began
    lastOp,                 \* the operation that ran last
    hitArg,                 \* the hit the picker gave that operation
    ret,                    \* what it returned
    moveLog,                \* the brush move calls it made, with their results
    carriedSelected,        \* TRUE iff the last notification's list held a selected brush
    refreshed,              \* the figures the last notification refreshed
    selection,              \* document: how many brushes, other nodes and brush faces are selected
    activeTool,             \* map view: the tool that is active
    handleSelection,        \* the active tool: how many handles (clip tool: points) it holds
    document,               \* document: its content
    undoStack,              \* document: the contents its undoable commands restore
    mouseDrag,              \* the view a mouse drag is in progress in
    dragStart,              \* document content when that drag's transaction began
    calls,                  \* the calls the last frame command made on its collaborators
    mapViewFocus,           \* TRUE iff the map view or a child of it has the keyboard focus
    gridSize,               \* document: Grid::size()
    gridChoice,             \* tool bar: current index of m_gridChoice
    gridBefore,             \* the grid size before the last grid command
    answers,                \* what each of those calls returned ("" for none); after
                            \* deleteSelection, what toolAllowsObjectDeletion() returned
    modified,               \* document: modified()
    persistent,             \* document: persistent()
    compilationDialog,      \* TRUE iff m_compilationDialog is not null
    registered,             \* TRUE iff the frame manager holds the frame
    loaded,                 \* document: how many times its map was replaced
    command,                \* the window command waiting in a modal dialog, if any
    lifecycle,              \* the frame: open, closed, or the destructor's position
    children,               \* the frame's child objects, in order of creation
    connected,              \* TRUE iff m_notifierConnection is connected
    documentHeld,           \* TRUE iff m_document still refers to the document
    finalAutosave,          \* TRUE iff the destructor triggered its autosave
    pending,                \* event loop: the queue of events, the oldest first
    notified,               \* number of transaction notifications the frame got
    updated,                \* number of times updateUndoRedoActions ran since the frame was made
    undoAction,             \* enabled states of m_undoAction and m_redoAction
    redoDepth,              \* document: number of commands that can be redone
    phase,                  \* command processor: position inside a command
    now,                    \* system clock, in seconds
    m_lastInputTime,        \* MapFrame::m_lastInputTime
    inputAt,                \* time of the last input event sent to the frame or a child
    mouseButtons,           \* TRUE iff QGuiApplication::mouseButtons() != Qt::NoButton
    filtered                \* the objects the frame's event filter is installed on

vars == <<ndebug, violated, m_state, m_brush, m_index, m_handleFigure,
          m_selectedHandleFigure, m_guideFigure, figures, depicted, listeners,
          brushes, undoDepth, initialPoint, referencePoint, applied, rejected,
          dragBase,
          lastOp, hitArg, ret, moveLog, carriedSelected, refreshed,
          selection, activeTool, handleSelection, document, undoStack,
          mouseDrag, dragStart, calls, mapViewFocus, gridSize, gridChoice,
          gridBefore, answers, modified, persistent, compilationDialog,
          registered, loaded, command, lifecycle, children, connected, documentHeld,
          finalAutosave, pending, notified, updated, undoAction, redoDepth, phase, now,
          m_lastInputTime, inputAt, mouseButtons, filtered>>

toolVars == <<m_state, m_brush, m_index>>
figVars == <<m_handleFigure, m_selectedHandleFigure, m_guideFigure, figures, depicted>>
dragVars == <<initialPoint, referencePoint, applied, rejected, dragBase>>

\* The state of the frame, its document and its views.
gridVars == <<gridSize, gridChoice, gridBefore>>
docVars == <<modified, persistent, compilationDialog, registered, loaded, command>>
lifeVars == <<lifecycle, children, connected, documentHeld, finalAutosave>>
eventVars == <<pending, notified, updated, undoAction, redoDepth, phase>>
timeVars == <<now, m_lastInputTime, inputAt, mouseButtons>>
clockVars == <<timeVars, filtered>>
windowVars == <<docVars, lifeVars, eventVars, clockVars>>
frameVars == <<selection, activeTool, handleSelection, document, undoStack,
               mouseDrag, dragStart, calls, mapViewFocus, gridVars, answers,
               windowVars>>

\* The state of the handle tool, but for the operation that ran last.
toolSide == <<ndebug, violated, m_state, m_brush, m_index, m_handleFigure,
              m_selectedHandleFigure, m_guideFigure, figures, depicted, listeners,
              brushes, undoDepth, initialPoint, referencePoint, applied, rejected,
              dragBase, hitArg, ret, moveLog, carriedSelected, refreshed>>

----------------------------------------------------------------------------
(* Bounds of the model *)

NumBrushes == 2
MaxUndoDepth == 2
MaxListeners == 2
MaxSelected == 2
MaxCommands == 2
NumChildren == 3
MaxDocuments == 1
MaxPending == 2
MaxNotified == 3
MaxDialogs == 1
MaxUpdates == 3
MaxTime == 4

(* Program values *)

NULL == 0
GoneIndex == 0 - 1
INACTIVE == "INACTIVE"
ACTIVE == "ACTIVE"
SELECTED == "SELECTED"
DRAGGING == "DRAGGING"
States == {INACTIVE, ACTIVE, SELECTED, DRAGGING}

Brushes == 1..NumBrushes
GridSize == 2
WorldMin == 0
WorldMax == 6
Points == WorldMin..WorldMax
MinVertices == 2
MinExtent == GridSize

HandleType == "HANDLE"
OtherType == "OTHER"
NoHit == [type |-> "NONE", brush |-> NULL, index |-> GoneIndex, hitPoint |-> 0]

Min(a, b) == IF a < b THEN a ELSE b
Max(a, b) == IF a > b THEN a ELSE b

----------------------------------------------------------------------------
(* Picker: the hits of a pointer event *)

\* The hits on handles of this tool's kind the picker can report: an existing
\* handle of an existing brush, hit on or just beside the handle's position.
HandleHits ==
    UNION { { [type |-> HandleType, brush |-> b, index |-> i,
               hitPoint |-> brushes[b][i + 1] + off] :
                i \in 0..(Len(brushes[b]) - 1), off \in {0, 1} } : b \in Brushes }

\* A hit of another kind (a face of the first brush), which the tool's filter skips.
OtherHit == [type |-> OtherType, brush |-> 1, index |-> 0, hitPoint |-> brushes[1][1]]

\* The hit lists of an event: nothing, a hit of another kind only, or a handle
\* hit, alone or behind a hit of another kind.
HitLists ==
    {<<>>, <<OtherHit>>}
        \cup { IF h.index = 0 THEN <<h>> ELSE <<OtherHit, h>> : h \in HandleHits }

\* HitList::first(type, ignoreOccluders): the first hit of the type, or NULL.
first(hits, type) ==
    IF \E k \in 1..Len(hits) : hits[k].type = type
    THEN hits[CHOOSE k \in 1..Len(hits) :
                /\ hits[k].type = type
                /\ \A j \in 1..(k - 1) : hits[j].type # type]
    ELSE NoHit

----------------------------------------------------------------------------
(* Grid *)

\* Grid::snap: the nearest multiple of the grid size.
snap(x) == GridSize * ((2 * x + GridSize) \div (2 * GridSize))

\* Grid::moveDelta(position, worldBounds, rawDelta): the delta that takes
\* position to the snapped target, kept inside the world bounds.
moveDelta(position, rawDelta) ==
    Max(WorldMin, Min(WorldMax, snap(position + rawDelta))) - position

----------------------------------------------------------------------------
(* Brush geometry *)

RECURSIVE SortedSeq(_)
SortedSeq(S) ==
    IF S = {} THEN <<>>
    ELSE LET m == CHOOSE x \in S : \A y \in S : x <= y
         IN <<m>> \o SortedSeq(S \ {m})

Range(f) == { f[k] : k \in DOMAIN f }

\* The index (0-based) of position p in the vertex list.
IndexOf(verts, p) == (CHOOSE k \in DOMAIN verts : verts[k] = p) - 1

\* A candidate is rejected wholesale when it has too few vertices, when its
\* extent falls below the minimum, or when it leaves the world bounds.
ValidVertices(verts) ==
    /\ Len(verts) >= MinVertices
    /\ verts[Len(verts)] - verts[1] >= MinExtent
    /\ verts[1] >= WorldMin
    /\ verts[Len(verts)] <= WorldMax

\* Fault: a candidate that inverts the solid is applied, though reported as
\* not moved.
moveVertexPartial(verts, index, delta) ==
    LET p == verts[index + 1]
        q == p + delta
        rest == Range(verts) \ {p}
        cand == SortedSeq(rest \cup {q})
        inverts == \/ index = 0 /\ \A r \in rest : q > r
                   \/ index = Len(verts) - 1 /\ \A r \in rest : q < r
    IN  IF delta = 0 \/ ~ValidVertices(cand)
        THEN [verts |-> verts, index |-> index, moved |-> FALSE]
        ELSE IF inverts
        THEN [verts |-> cand, index |-> index, moved |-> FALSE]
        ELSE IF q \in rest
        THEN [verts |-> cand, index |-> GoneIndex, moved |-> TRUE]
        ELSE [verts |-> cand, index |-> IndexOf(cand, q), moved |-> TRUE]

\* MoveResult Brush::moveVertex(index, delta): the vertices after the call,
\* the handle's new index (-1 when it merged into a neighbour) and moved.
moveVertex(verts, index, delta) ==
    LET p == verts[index + 1]
        q == p + delta
        rest == Range(verts) \ {p}
        cand == SortedSeq(rest \cup {q})
        \* an extreme vertex dragged past the opposite extreme inverts the solid
        inverts == \/ index = 0 /\ \A r \in rest : q > r
                   \/ index = Len(verts) - 1 /\ \A r \in rest : q < r
    IN  IF delta = 0 \/ inverts \/ ~ValidVertices(cand)
        THEN [verts |-> verts, index |-> index, moved |-> FALSE]
        ELSE IF q \in rest
        THEN [verts |-> cand, index |-> GoneIndex, moved |-> TRUE]
        ELSE [verts |-> cand, index |-> IndexOf(cand, q), moved |-> TRUE]

\* VertexTool::movePosition(brush, index): where the handle is now.
movePosition(brush, index) == brushes[brush][index + 1]

\* VertexTool::performMove(brush, index, delta), which goes through
\* Map::moveVertex / moveEdge / moveFace.
performMove(brush, index, delta) == moveVertex(brushes[brush], index, delta)

----------------------------------------------------------------------------
(* Figures: the tool's three figure pointers and the renderer's registry.   *)
(* A figure state is a record [h, s, g, reg, dep]: the three pointers (TRUE *)
(* when not NULL), the registry counts and what the selected figures show.  *)

NoFigures == [handle |-> 0, selected |-> 0, guide |-> 0]
Nothing == <<NULL, GoneIndex>>

FigState == [h |-> m_handleFigure, s |-> m_selectedHandleFigure,
             g |-> m_guideFigure, reg |-> figures, dep |-> depicted]

\* Tool::addFigure / Tool::removeFigure on the renderer's registry.
addFigure(reg, kind) == [reg EXCEPT ![kind] = @ + 1]
removeFigure(reg, kind) == [reg EXCEPT ![kind] = IF @ > 0 THEN @ - 1 ELSE 0]

deleteHandleFigure(F) ==
    IF F.h
    THEN [F EXCEPT !.reg = removeFigure(F.reg, "handle"), !.h = FALSE]
    ELSE F

createHandleFigure(F) ==
    LET D == deleteHandleFigure(F)
    IN  [D EXCEPT !.h = TRUE, !.reg = addFigure(D.reg, "handle")]

deleteSelectedHandleFigures(F) ==
    LET A == IF F.s
             THEN [F EXCEPT !.reg = removeFigure(F.reg, "selected"), !.s = FALSE,
                            !.dep = Nothing]
             ELSE F
    IN  IF A.g
        THEN [A EXCEPT !.reg = removeFigure(A.reg, "guide"), !.g = FALSE]
        ELSE A

\* updateSelectedHandleFigures(figure, guide, brush, index)
updateSelectedHandleFigures(F, brush, index) == [F EXCEPT !.dep = <<brush, index>>]

createSelectedHandleFigures(F, brush, index) ==
    LET D == deleteSelectedHandleFigures(F)
        U == updateSelectedHandleFigures([D EXCEPT !.s = TRUE, !.g = TRUE], brush, index)
    IN  [U EXCEPT !.reg = addFigure(addFigure(U.reg, "selected"), "guide")]

SetFigures(F) ==
    /\ m_handleFigure' = F.h
    /\ m_selectedHandleFigure' = F.s
    /\ m_guideFigure' = F.g
    /\ figures' = F.reg
    /\ depicted' = F.dep

----------------------------------------------------------------------------
(* Undo manager *)

undoBegin(depth) == depth + 1
undoEnd(depth) == IF depth > 0 THEN depth - 1 ELSE 0

----------------------------------------------------------------------------
(* The frame's collaborators: the document's selection and the map view's tools *)

\* The selections the document can hold: nodes (brushes and others) or brush faces.
NoSelection == [brushes |-> 0, others |-> 0, faces |-> 0]
Selections ==
    { [brushes |-> n, others |-> m, faces |-> 0] : n \in 0..MaxSelected, m \in 0..1 }
        \cup { [brushes |-> 0, others |-> 0, faces |-> k] : k \in 1..MaxSelected }

Tools == {"none", "clip", "vertex", "edge", "face", "createPrimitiveBrush", "rotate"}
HandleTools == {"vertex", "edge", "face"}

\* Grid::MinSize, Grid::MaxSize and the size of a new document's grid.
MinSize == 0 - 3
MaxSize == 8
InitialSize == 4
Views == {"mapView", "inspector"}

\* The frame among the objects that receive events; its children are numbered
\* from 1 in the order of their creation (the compilation dialogs after those
\* of the constructor); an object that is not the frame's has a negative
\* number.
Frame == 0
Outside == 0 - 1

\* The constructor's member initialisers make three SignalDelayer objects as
\* children of the frame before its body installs the event filter: no
\* ChildAdded of theirs reaches the filter, and they stay without it. They
\* queue and emit signals; they are no widgets and take no mouse or key events.
NumDelayers == 3
Delayers == 1..NumDelayers

\* The children the constructor's body makes after it installed the filter
\* (central widget, tool bar, autosave timer): the filter sees their
\* ChildAdded and installs itself on them.
Constructed == NumDelayers + NumChildren
Widgets == (NumDelayers + 1)..Constructed

\* The modal dialog a command waits in (message box or file dialog), made
\* with the frame as its parent and deleted when it is answered.
ModalDialog == 100

\* No window command is waiting in a modal dialog.
NoCommand == [op |-> "none", at |-> "none", calls |-> <<>>, answers |-> <<>>]

\* Document contents are named by numbers: the content a command yields
\* after n undoable commands is n + 1 (the oldest content is 0).
Contents == 0..(MaxCommands + 1)

----------------------------------------------------------------------------
(* The tool *)

\* The frame after MapFrame::MapFrame: an open, registered window on an
\* unmodified document without a file. Its children are the three signal
\* delayers made by the member initialisers and, after them, those the
\* constructor's body makes; the event filter, installed on the frame before
\* the body makes its children, is on the frame and on the latter only.
\* m_lastInputTime is the time of construction.
InitFrame ==
    /\ selection = NoSelection
    /\ activeTool = "none"
    /\ handleSelection = 0
    /\ document = 0
    /\ undoStack = <<>>
    /\ mouseDrag = "none"
    /\ dragStart = 0
    /\ calls = <<>>
    /\ mapViewFocus = TRUE
    /\ gridSize = InitialSize
    /\ gridChoice = InitialSize - MinSize
    /\ gridBefore = InitialSize
    /\ answers = <<>>
    /\ modified = FALSE
    /\ persistent = FALSE
    /\ compilationDialog = FALSE
    /\ registered = TRUE
    /\ loaded = 0
    /\ command = NoCommand
    /\ lifecycle = "open"
    /\ children = [k \in 1..Constructed |-> k]
    /\ connected = TRUE
    /\ documentHeld = TRUE
    /\ finalAutosave = FALSE
    /\ pending = <<>>
    /\ notified = 0
    /\ updated = 0
    /\ undoAction = [undo |-> FALSE, redo |-> FALSE]
    /\ redoDepth = 0
    /\ phase = "idle"
    /\ now = 0
    /\ m_lastInputTime = 0
    /\ inputAt = 0
    /\ mouseButtons = FALSE
    /\ filtered = {Frame} \cup Widgets

\* The tool after construction, with the document's brushes.
InitTool ==
    /\ violated = FALSE
    /\ m_state = INACTIVE
    /\ m_brush = NULL
    /\ m_index = GoneIndex
    /\ m_handleFigure = FALSE
    /\ m_selectedHandleFigure = FALSE
    /\ m_guideFigure = FALSE
    /\ figures = NoFigures
    /\ depicted = Nothing
    /\ listeners = 0
    /\ brushes = [b \in Brushes |->
                    IF b = 1 THEN <<WorldMin, WorldMin + GridSize, WorldMax>>
                    ELSE <<WorldMin + GridSize, WorldMax>>]
    /\ undoDepth = 0
    /\ initialPoint = 0
    /\ referencePoint = 0
    /\ applied = 0
    /\ rejected = FALSE
    /\ dragBase = <<>>
    /\ lastOp = "none"
    /\ hitArg = NoHit
    /\ ret = FALSE
    /\ moveLog = <<>>
    /\ carriedSelected = FALSE
    /\ refreshed = "none"
    /\ InitFrame

\* A build that checks assert().
Init == ndebug = FALSE /\ InitTool

\* A build with NDEBUG defined: assert() is compiled out.
InitRelease == ndebug = TRUE /\ InitTool

\* assert(cond): checked unless the build defines NDEBUG. A failed assert()
\* aborts the process, so the call goes no further: the condition guards it.
AssertHolds(cond) == ndebug \/ cond

\* The assertions at the head of a handler: the call is noted as breaking the
\* protocol when one of them is false (it then only runs with NDEBUG).
Asserts(cond) ==
    /\ AssertHolds(cond)
    /\ violated' = (violated \/ ~cond)

\* What is noted of a call: the operation, the hit the picker gave it, what
\* it returned and the brush move calls it made (arguments and results).
Called(op, hit, r, moves) ==
    /\ lastOp' = op
    /\ hitArg' = hit
    /\ ret' = r
    /\ moveLog' = moves
    /\ carriedSelected' = FALSE
    /\ refreshed' = "none"
    /\ UNCHANGED <<ndebug, frameVars>>

\* Undefined behaviour in a call (a null pointer dereferenced, a vertex read
\* out of range): the process is killed, or the call carries on and returns
\* either value. Such a call is only reached with assert() compiled out.
Undefined(op, moves) ==
    \E outcome \in {"crash", op}, r \in BOOLEAN : Called(outcome, NoHit, r, moves)

SetTool(T) ==
    /\ m_state' = T.state
    /\ m_brush' = T.brush
    /\ m_index' = T.index

\* The drag driver's points are only read during a drag and are written anew
\* by the next doBeginLeftDrag: outside a drag they are kept at 0.
NoDrag ==
    /\ initialPoint' = 0
    /\ referencePoint' = 0
    /\ applied' = 0
    /\ rejected' = FALSE
    /\ dragBase' = <<>>

\* activated registers the tool's three listeners (one more triple).
activatedListeners(n) == n + 1

\* Fault: the listeners are never removed.
deactivatedListenersStay(n) == n

\* deactivated removes the tool's three listeners (one triple, if any).
deactivatedListeners(n) == IF n > 0 THEN n - 1 ELSE 0

\* VertexTool::activated
activated ==
    /\ Asserts(m_state = INACTIVE)
    /\ listeners < MaxListeners
    /\ SetFigures(createHandleFigure(FigState))
    /\ listeners' = activatedListeners(listeners)
    /\ m_state' = ACTIVE
    /\ Called("activated", NoHit, FALSE, <<>>)
    /\ UNCHANGED <<m_brush, m_index, brushes, undoDepth, dragVars>>

\* VertexTool::deactivated
deactivated ==
    /\ Asserts(m_state # INACTIVE)
    /\ SetFigures(deleteHandleFigure(FigState))
    /\ listeners' = deactivatedListeners(listeners)
    /\ m_state' = INACTIVE
    /\ NoDrag
    /\ Called("deactivated", NoHit, FALSE, <<>>)
    /\ UNCHANGED <<m_brush, m_index, brushes, undoDepth>>

\* leftMouseDown on a hit: the handle it records and the mode it enters.
leftMouseDownTool(hit) == [state |-> SELECTED, brush |-> hit.brush, index |-> hit.index]

\* Fault: the unselected aggregate is not removed.
leftMouseDownFiguresKeepHandle(F, hit) ==
    createSelectedHandleFigures(F, hit.brush, hit.index)

\* leftMouseDown on a hit: the figures it swaps.
leftMouseDownFigures(F, hit) ==
    createSelectedHandleFigures(deleteHandleFigure(F), hit.brush, hit.index)

\* VertexTool::leftMouseDown
leftMouseDown ==
    /\ Asserts(m_state = ACTIVE)
    /\ \E hits \in HitLists :
            LET hit == first(hits, HandleType)
            IN  IF hit # NoHit
                THEN /\ SetTool(leftMouseDownTool(hit))
                     /\ SetFigures(leftMouseDownFigures(FigState, hit))
                     /\ Called("leftMouseDown", hit, TRUE, <<>>)
                     /\ UNCHANGED <<listeners, brushes, undoDepth, dragVars>>
                ELSE /\ Called("leftMouseDown", hit, FALSE, <<>>)
                     /\ UNCHANGED <<toolVars, figVars, listeners, brushes,
                                    undoDepth, dragVars>>

\* Fault: the handle index is not reset.
leftMouseUpToolKeepsIndex == [state |-> ACTIVE, brush |-> NULL, index |-> m_index]

\* leftMouseUp in SELECTED: the handle is dropped.
leftMouseUpTool == [state |-> ACTIVE, brush |-> NULL, index |-> GoneIndex]

\* leftMouseUp in SELECTED: the figures it swaps back.
leftMouseUpFigures(F) == createHandleFigure(deleteSelectedHandleFigures(F))

\* VertexTool::leftMouseUp
leftMouseUp ==
    /\ Asserts(m_state = ACTIVE \/ m_state = SELECTED)
    /\ IF m_state = SELECTED
       THEN /\ SetFigures(leftMouseUpFigures(FigState))
            /\ SetTool(leftMouseUpTool)
            /\ Called("leftMouseUp", NoHit, TRUE, <<>>)
            /\ UNCHANGED <<listeners, brushes, undoDepth, dragVars>>
       ELSE /\ Called("leftMouseUp", NoHit, FALSE, <<>>)
            /\ UNCHANGED <<toolVars, figVars, listeners, brushes, undoDepth, dragVars>>

\* Fault: the missing hit is not noticed.
doBeginLeftDragNeverRefuses(hit) == FALSE

\* doBeginLeftDrag returns false at once when the picker gives no handle hit.
doBeginLeftDragRefuses(hit) == hit = NoHit

\* Fault: the drag keeps the handle leftMouseDown recorded.
doBeginLeftDragToolKeepsHandle(hit) ==
    [state |-> DRAGGING, brush |-> m_brush, index |-> m_index]

\* doBeginLeftDrag on a hit: the handle it records and the mode it enters.
doBeginLeftDragTool(hit) == [state |-> DRAGGING, brush |-> hit.brush, index |-> hit.index]

\* VertexTool::doBeginLeftDrag, and the drag driver taking initialPoint as
\* the drag's first referencePoint.
doBeginLeftDrag ==
    /\ \E hits \in HitLists :
        LET hit == first(hits, HandleType)
        IN  IF doBeginLeftDragRefuses(hit)
            THEN /\ Called("doBeginLeftDrag", hit, FALSE, <<>>)
                 /\ UNCHANGED <<violated, toolVars, figVars, listeners, brushes,
                                undoDepth, dragVars>>
            ELSE /\ Asserts(m_state = SELECTED)
                 /\ undoDepth < MaxUndoDepth
                 /\ SetTool(doBeginLeftDragTool(hit))
                 /\ initialPoint' = hit.hitPoint
                 /\ referencePoint' = hit.hitPoint
                 /\ applied' = 0
                 /\ rejected' = FALSE
                 /\ dragBase' = (IF hit.brush \in Brushes THEN brushes[hit.brush] ELSE <<>>)
                 /\ SetFigures(deleteHandleFigure(FigState))
                 /\ undoDepth' = undoBegin(undoDepth)
                 /\ Called("doBeginLeftDrag", hit, TRUE, <<>>)
                 /\ UNCHANGED <<listeners, brushes>>

\* Fault: the null delta is not special.
dragDeltaNeverNull(delta) == FALSE

\* doLeftDrag makes no move call for a null delta.
dragDeltaIsNull(delta) == delta = 0

\* Fault: a gone handle does not abort the drag.
dragAlwaysContinues(result) == TRUE

\* Fault: a move that was applied never aborts the drag.
dragContinuesAfterMerge(result) == result.index # GoneIndex \/ result.moved

\* Fault: a rejected move aborts the drag.
dragContinuesIfMoved(result) == result.moved

\* doLeftDrag: the step aborts the drag exactly when the handle is gone.
dragContinues(result) == result.index # GoneIndex

\* Fault: the reference point is never advanced.
dragReferenceStays(ref, delta, result) == ref

\* Fault: the reference point advances by the delta of a rejected move too.
dragReferenceAlways(ref, delta, result) == ref + delta

\* doLeftDrag: the reference point advances by the delta of a move that moved.
dragReference(ref, delta, result) == IF result.moved THEN ref + delta ELSE ref

\* VertexTool::doLeftDrag
doLeftDrag ==
    /\ Asserts(m_state = DRAGGING /\ m_brush # NULL /\ m_index # GoneIndex)
    /\ IF m_brush = NULL \/ m_index = GoneIndex
       THEN \* line 201 dereferences a null brush or reads vertex -1
            /\ Undefined("doLeftDrag", <<>>)
            /\ UNCHANGED <<toolVars, figVars, listeners, brushes, undoDepth, dragVars>>
       ELSE
         \E curMousePoint \in Points :
            LET position == movePosition(m_brush, m_index)
                delta == moveDelta(position, curMousePoint - referencePoint)
                result == performMove(m_brush, m_index, delta)
                call == [brush |-> m_brush, index |-> m_index, delta |-> delta,
                         newIndex |-> result.index, moved |-> result.moved]
            IN  IF dragDeltaIsNull(delta)
                THEN /\ Called("doLeftDrag", NoHit, TRUE, <<>>)
                     /\ UNCHANGED <<toolVars, figVars, listeners, brushes,
                                    undoDepth, dragVars>>
                ELSE /\ brushes' = [brushes EXCEPT ![m_brush] = result.verts]
                     /\ m_index' = result.index
                     /\ applied' = (IF result.moved THEN applied + delta ELSE applied)
                     /\ rejected' = (rejected \/ ~result.moved)
                     /\ IF ~dragContinues(result)
                        THEN /\ Called("doLeftDrag", NoHit, FALSE, <<call>>)
                             /\ UNCHANGED <<referencePoint, figVars>>
                        ELSE /\ referencePoint' = dragReference(referencePoint, delta, result)
                             /\ IF m_selectedHandleFigure /\ m_guideFigure
                                THEN /\ SetFigures(updateSelectedHandleFigures(
                                            FigState, m_brush, result.index))
                                     /\ Called("doLeftDrag", NoHit, TRUE, <<call>>)
                                ELSE \* line 214 dereferences the null figures
                                     /\ Undefined("doLeftDrag", <<call>>)
                                     /\ UNCHANGED figVars
                     /\ UNCHANGED <<m_state, m_brush, listeners, undoDepth,
                                    initialPoint, dragBase>>

\* Fault: the tool falls back to SELECTED.
doEndLeftDragToolSelected == [state |-> SELECTED, brush |-> NULL, index |-> GoneIndex]

\* doEndLeftDrag: the handle is dropped.
doEndLeftDragTool == [state |-> ACTIVE, brush |-> NULL, index |-> GoneIndex]

\* Fault: the unselected aggregate is not restored.
doEndLeftDragFiguresNoHandle(F) == deleteSelectedHandleFigures(F)

\* doEndLeftDrag: the figures it swaps back.
doEndLeftDragFigures(F) == createHandleFigure(deleteSelectedHandleFigures(F))

\* VertexTool::doEndLeftDrag
doEndLeftDrag ==
    /\ Asserts(m_state = DRAGGING)
    /\ undoDepth' = undoEnd(undoDepth)
    /\ SetFigures(doEndLeftDragFigures(FigState))
    /\ SetTool(doEndLeftDragTool)
    /\ NoDrag
    /\ Called("doEndLeftDrag", NoHit, FALSE, <<>>)
    /\ UNCHANGED <<listeners, brushes>>

\* What is noted of a notification: the handler, whether its list held a
\* selected brush and which figures it refreshed.
Notified(op, carried, what) ==
    /\ lastOp' = op
    /\ hitArg' = NoHit
    /\ ret' = FALSE
    /\ moveLog' = <<>>
    /\ carriedSelected' = carried
    /\ refreshed' = what
    /\ UNCHANGED <<ndebug, frameVars>>

\* The refresh both handlers make: the unselected aggregate in ACTIVE, the
\* selected-handle and guide figures in SELECTED and DRAGGING.
refreshFigures(F) ==
    IF m_state = SELECTED \/ m_state = DRAGGING
    THEN updateSelectedHandleFigures(F, m_brush, m_index)
    ELSE F

refreshKind ==
    IF m_state = ACTIVE THEN "handle"
    ELSE IF m_state = SELECTED \/ m_state = DRAGGING THEN "selected"
    ELSE "none"

\* Fault: brushesDidChange refreshes for every list.
brushesDidChangeAlways(changed, selected) == TRUE

\* brushesDidChange refreshes when some brush of the list is selected.
brushesDidChangeRefreshes(changed, selected) == changed \cap selected # {}

\* VertexTool::brushesDidChange, called by the map's event while the tool's
\* listener is registered. The list and the brushes' selected flags come
\* from the document.
brushesDidChange ==
    /\ listeners > 0
    /\ Asserts(m_state # INACTIVE)
    /\ \E changed \in SUBSET Brushes : \E selected \in SUBSET changed :
          IF brushesDidChangeRefreshes(changed, selected)
          THEN /\ SetFigures(refreshFigures(FigState))
               /\ Notified("brushesDidChange", selected # {}, refreshKind)
          ELSE /\ UNCHANGED figVars
               /\ Notified("brushesDidChange", selected # {}, "none")
    /\ UNCHANGED <<toolVars, listeners, brushes, undoDepth, dragVars>>

\* selectionChanged: the refresh it makes.
selectionChangedFigures(F) == refreshFigures(F)

\* VertexTool::selectionChanged, called by the selection's events while the
\* tool's listeners are registered.
selectionChanged ==
    /\ listeners > 0
    /\ Asserts(m_state # INACTIVE)
    /\ SetFigures(selectionChangedFigures(FigState))
    /\ Notified("selectionChanged", FALSE, refreshKind)
    /\ UNCHANGED <<toolVars, listeners, brushes, undoDepth, dragVars>>

Next ==
    \/ activated
    \/ deactivated
    \/ leftMouseDown
    \/ leftMouseUp
    \/ doBeginLeftDrag
    \/ doLeftDrag
    \/ doEndLeftDrag

\* The tool driven by its operations alone.
Spec == Init /\ [][Next]_vars

\* The tool in a build with NDEBUG defined, up to and including the first
\* call that breaks the protocol of the modes.
NextRelease ==
    \/ ~violated /\ activated
    \/ ~violated /\ deactivated
    \/ ~violated /\ leftMouseDown
    \/ ~violated /\ leftMouseUp
    \/ ~violated /\ doBeginLeftDrag
    \/ ~violated /\ doLeftDrag
    \/ ~violated /\ doEndLeftDrag

SpecRelease == InitRelease /\ [][NextRelease]_vars

\* The tool with the document's notifications delivered at any time.
NextNotified ==
    \/ Next
    \/ brushesDidChange
    \/ selectionChanged

SpecNotified == Init /\ [][NextNotified]_vars

TypeOK ==
    /\ m_state \in States
    /\ m_brush \in Brushes \cup {NULL}
    /\ m_index \in GoneIndex..WorldMax
    /\ \A b \in Brushes : ValidVertices(brushes[b])
    /\ undoDepth \in 0..MaxUndoDepth
    /\ referencePoint \in WorldMin..(WorldMax + 1)

----------------------------------------------------------------------------
(* The frame: MapFrame's commands on the document and the map view *)

\* What is noted of a frame command: the command and the calls it made.
FrameCalled(op, made) ==
    /\ lastOp' = op
    /\ calls' = made
    /\ answers' = <<>>
    /\ UNCHANGED <<toolSide, mapViewFocus, gridVars, windowVars>>

\* The user changes the document's selection.
userSelects ==
    /\ \E sel \in Selections : selection' = sel
    /\ FrameCalled("userSelects", <<>>)
    /\ UNCHANGED <<activeTool, handleSelection, document, undoStack, mouseDrag,
                   dragStart>>

\* The user activates a tool of the map view, or none, and selects handles
\* in a vertex, edge or face tool or places points in the clip tool.
userSwitchesTool ==
    /\ \E tool \in Tools, handles \in 0..MaxSelected :
          /\ activeTool' = tool
          /\ handleSelection' = (IF tool \in HandleTools \cup {"clip"} THEN handles ELSE 0)
    /\ FrameCalled("userSwitchesTool", <<>>)
    /\ UNCHANGED <<selection, document, undoStack, mouseDrag, dragStart>>

\* A command the document (or a tool on its behalf) carries out. It may fail
\* and change nothing. Outside a drag it is an undoable command of its own;
\* during a drag it joins the drag's open transaction.
documentCommand ==
    /\ mouseDrag = "none" => Len(undoStack) < MaxCommands
    /\ \E done \in BOOLEAN, sel \in Selections :
          IF ~done
          THEN UNCHANGED <<selection, document, undoStack>>
          ELSE /\ selection' = sel
               /\ document' = (IF mouseDrag = "none" THEN document + 1 ELSE dragStart + 1)
               /\ undoStack' = (IF mouseDrag = "none"
                                THEN <<document>> \o undoStack ELSE undoStack)

\* A mouse drag begins in a view and opens a transaction.
beginMouseDrag ==
    /\ mouseDrag = "none"
    /\ Len(undoStack) < MaxCommands
    /\ \E view \in Views : mouseDrag' = view
    /\ dragStart' = document
    /\ FrameCalled("beginMouseDrag", <<>>)
    /\ UNCHANGED <<selection, activeTool, handleSelection, document, undoStack>>

\* A step of the drag changes the document inside the transaction, or takes
\* it back to where the drag began.
mouseDragged ==
    /\ mouseDrag # "none"
    /\ \E d \in {dragStart, dragStart + 1} : document' = d
    /\ FrameCalled("mouseDragged", <<>>)
    /\ UNCHANGED <<selection, activeTool, handleSelection, undoStack, mouseDrag,
                   dragStart>>

\* The drag ends: its transaction is committed as one undoable command.
endMouseDrag ==
    /\ mouseDrag # "none"
    /\ undoStack' = (IF document # dragStart THEN <<dragStart>> \o undoStack
                     ELSE undoStack)
    /\ mouseDrag' = "none"
    /\ dragStart' = 0
    /\ FrameCalled("endMouseDrag", <<>>)
    /\ UNCHANGED <<selection, activeTool, handleSelection, document>>

\* MapFrame::canUndo: document->canUndoCommand()
canUndo == Len(undoStack) > 0

\* document->canRedoCommand()
canRedo == redoDepth > 0

\* MapFrame::updateUndoRedoActions: the undo and redo actions are enabled
\* as the document can undo and redo when the function runs.
updateUndoRedoActions == [undo |-> canUndo, redo |-> canRedo]

\* MapFrame::focusChange, the frame's slot for QApplication::focusChanged:
\* the keyboard focus has moved to a widget of the map view or to one outside
\* it, and the handler calls updateActionState and updateUndoRedoActions at
\* once. The signal is delivered by the event loop, between commands, while
\* the frame exists.
focusChange ==
    /\ lifecycle \in {"open", "closed"}
    /\ phase = "idle"
    /\ updated < MaxUpdates
    /\ \E inMapView \in BOOLEAN : mapViewFocus' = inMapView
    /\ undoAction' = updateUndoRedoActions
    /\ updated' = updated + 1
    /\ lastOp' = "focusChange"
    /\ calls' = <<"updateActionState", "updateUndoRedoActions">>
    /\ answers' = <<>>
    /\ UNCHANGED <<toolSide, gridVars, docVars, lifeVars, clockVars, pending, notified,
                   redoDepth, phase, selection, activeTool, handleSelection,
                   document, undoStack, mouseDrag, dragStart>>

\* view->cancelMouseDrag(): what the call returns and leaves. With a drag in
\* progress in that view it cancels the drag, whose open transaction is
\* cancelled (rolled back to the content at its begin), and returns true;
\* with none it changes nothing and returns false.
cancelMouseDrag(view) ==
    IF mouseDrag = view
    THEN [cancelled |-> TRUE, mouseDrag |-> "none", dragStart |-> 0,
          document |-> dragStart]
    ELSE [cancelled |-> FALSE, mouseDrag |-> mouseDrag, dragStart |-> dragStart,
          document |-> document]

\* Fault: the inspector's answer is not looked at.
undoRunsCommandUnlessMapView(mapViewCancelled, inspectorCancelled) == ~mapViewCancelled

\* MapFrame::undo undoes a command only when neither view cancelled a drag.
undoRunsCommand(mapViewCancelled, inspectorCancelled) ==
    ~mapViewCancelled /\ ~inspectorCancelled

\* MapFrame::undo
undo ==
    IF canUndo
    THEN LET mapView == cancelMouseDrag("mapView")
             inspectorAsked == ~mapView.cancelled
             left == IF inspectorAsked THEN cancelMouseDrag("inspector") ELSE mapView
             runs == undoRunsCommand(mapView.cancelled,
                                     inspectorAsked /\ left.cancelled)
         IN  /\ mouseDrag' = left.mouseDrag
             /\ dragStart' = left.dragStart
             /\ document' = (IF runs THEN undoStack[1] ELSE left.document)
             /\ undoStack' = (IF runs THEN Tail(undoStack) ELSE undoStack)
             /\ FrameCalled("undo",
                    <<"mapView.cancelMouseDrag">>
                      \o (IF inspectorAsked THEN <<"inspector.cancelMouseDrag">> ELSE <<>>)
                      \o (IF runs THEN <<"document.undoCommand">> ELSE <<>>))
             /\ UNCHANGED <<selection, activeTool, handleSelection>>
    ELSE /\ FrameCalled("undo", <<>>)
         /\ UNCHANGED <<selection, activeTool, handleSelection, document, undoStack,
                        mouseDrag, dragStart>>

\* selectedNodes().hasOnlyBrushes(): some node is selected and all are brushes.
hasOnlyBrushes == selection.brushes > 0 /\ selection.others = 0
brushCount == selection.brushes
hasSelectedBrushFaces == selection.faces > 0

\* The active handle tool's canDoCsgConvexMerge(): it has handles to merge.
toolCanDoCsgConvexMerge(tool) == activeTool = tool /\ handleSelection > 1

\* Fault: one selected brush is enough.
canDoCsgConvexMergeOneBrush ==
    \/ hasSelectedBrushFaces /\ selection.faces > 1
    \/ hasOnlyBrushes /\ brushCount >= 1
    \/ toolCanDoCsgConvexMerge("vertex")
    \/ toolCanDoCsgConvexMerge("edge")
    \/ toolCanDoCsgConvexMerge("face")

\* MapFrame::canDoCsgConvexMerge
canDoCsgConvexMerge ==
    \/ hasSelectedBrushFaces /\ selection.faces > 1
    \/ hasOnlyBrushes /\ brushCount > 1
    \/ toolCanDoCsgConvexMerge("vertex")
    \/ toolCanDoCsgConvexMerge("edge")
    \/ toolCanDoCsgConvexMerge("face")

\* MapFrame::csgConvexMerge: the one collaborator that carries the merge out.
csgConvexMergeTarget ==
    IF toolCanDoCsgConvexMerge("vertex") THEN "vertexTool.csgConvexMerge"
    ELSE IF toolCanDoCsgConvexMerge("edge") THEN "edgeTool.csgConvexMerge"
    ELSE IF toolCanDoCsgConvexMerge("face") THEN "faceTool.csgConvexMerge"
    ELSE "document.csgConvexMerge"

\* A frame command that calls one collaborator when its guard holds and
\* does nothing otherwise.
GuardedCommand(op, can, target) ==
    IF can
    THEN /\ documentCommand
         /\ FrameCalled(op, <<target>>)
         /\ UNCHANGED <<activeTool, handleSelection, mouseDrag, dragStart>>
    ELSE /\ FrameCalled(op, <<>>)
         /\ UNCHANGED <<selection, activeTool, handleSelection, document, undoStack,
                        mouseDrag, dragStart>>

\* MapFrame::csgConvexMerge
csgConvexMerge ==
    /\ lastOp' = "csgConvexMerge"
    /\ GuardedCommand("csgConvexMerge", canDoCsgConvexMerge, csgConvexMergeTarget)

\* MapFrame::canDoCsgSubtract
canDoCsgSubtract == hasOnlyBrushes /\ brushCount >= 1

\* MapFrame::csgSubtract
csgSubtract ==
    /\ lastOp' = "csgSubtract"
    /\ GuardedCommand("csgSubtract", canDoCsgSubtract, "document.csgSubtract")

\* MapFrame::canDoCsgHollow
canDoCsgHollow == hasOnlyBrushes /\ brushCount >= 1

\* MapFrame::csgHollow
csgHollow ==
    /\ lastOp' = "csgHollow"
    /\ GuardedCommand("csgHollow", canDoCsgHollow, "document.csgHollow")

\* Fault: one selected brush is enough.
canDoCsgIntersectOneBrush == hasOnlyBrushes /\ brushCount >= 1

\* MapFrame::canDoCsgIntersect
canDoCsgIntersect == hasOnlyBrushes /\ brushCount > 1

\* MapFrame::csgIntersect
csgIntersect ==
    /\ lastOp' = "csgIntersect"
    /\ GuardedCommand("csgIntersect", canDoCsgIntersect, "document.csgIntersect")

\* m_document->hasSelectedNodes()
hasSelectedNodes == selection.brushes + selection.others > 0

\* m_mapView->anyToolActive()
anyToolActive == activeTool # "none"

\* m_mapView->toolAllowsObjectDeletion(): what the call can return. Neither
\* the function nor a word on it is at hand, so either answer is possible
\* whenever it is asked.
toolAllowsObjectDeletion == BOOLEAN

\* clipTool().canRemoveLastPoint(), and canRemoveSelection() of a handle tool
canRemoveLastPoint == handleSelection > 0
canRemoveSelection == handleSelection > 0

\* MapFrame::canCutSelection
canCutSelection == mapViewFocus /\ hasSelectedNodes /\ ~anyToolActive

\* Fault: the create-primitive-brush tool has no case of its own.
canDeleteSelectionNoPrimitive ==
    IF activeTool = "clip" THEN canRemoveLastPoint
    ELSE IF activeTool \in HandleTools THEN canRemoveSelection
    ELSE canCutSelection

\* MapFrame::canDeleteSelection
canDeleteSelection ==
    IF activeTool = "clip" THEN canRemoveLastPoint
    ELSE IF activeTool = "vertex" THEN canRemoveSelection
    ELSE IF activeTool = "edge" THEN canRemoveSelection
    ELSE IF activeTool = "face" THEN canRemoveSelection
    ELSE IF activeTool = "createPrimitiveBrush" THEN TRUE
    ELSE canCutSelection

\* Fault: with a handle tool active the document's objects are deleted.
deleteSelectionTargetDocument(allows) ==
    IF activeTool = "clip" THEN <<"clipTool.removeLastPoint">>
    ELSE <<"document.deleteObjects">>

\* MapFrame::deleteSelection: the calls its chain of cases makes, given what
\* toolAllowsObjectDeletion() returns if the chain gets to ask it.
deleteSelectionTarget(allows) ==
    IF activeTool = "clip" THEN <<"clipTool.removeLastPoint">>
    ELSE IF activeTool = "vertex" THEN <<"vertexTool.removeSelection">>
    ELSE IF activeTool = "edge" THEN <<"edgeTool.removeSelection">>
    ELSE IF activeTool = "face" THEN <<"faceTool.removeSelection">>
    ELSE IF ~anyToolActive \/ allows THEN <<"document.deleteObjects">>
    ELSE <<>>

\* deleteSelection gets to ask toolAllowsObjectDeletion(): no earlier case
\* of the chain applies and !anyToolActive() is false.
deleteSelectionAsksTool ==
    activeTool \notin HandleTools \cup {"clip"} /\ anyToolActive

\* MapFrame::deleteSelection. Removing the clip tool's last point leaves the
\* document alone; removing a handle tool's selection and deleting objects
\* are commands of the document. What toolAllowsObjectDeletion() returned,
\* if it was asked, is noted as the step's answer.
deleteSelection ==
    IF canDeleteSelection
    THEN \E allows \in toolAllowsObjectDeletion :
         LET target == deleteSelectionTarget(allows)
         IN  /\ lastOp' = "deleteSelection"
             /\ calls' = target
             /\ answers' = (IF ~deleteSelectionAsksTool THEN <<>>
                            ELSE IF allows THEN <<"true">> ELSE <<"false">>)
             /\ UNCHANGED <<toolSide, mapViewFocus, gridVars, windowVars>>
             /\ IF target = <<>>
                THEN UNCHANGED <<selection, handleSelection, document, undoStack>>
                ELSE IF target = <<"clipTool.removeLastPoint">>
                THEN /\ handleSelection' = (IF handleSelection > 0
                                            THEN handleSelection - 1 ELSE 0)
                     /\ UNCHANGED <<selection, document, undoStack>>
                ELSE /\ documentCommand
                     /\ handleSelection' = (IF target = <<"document.deleteObjects">>
                                            THEN handleSelection ELSE 0)
             /\ UNCHANGED <<activeTool, mouseDrag, dragStart>>
    ELSE /\ FrameCalled("deleteSelection", <<>>)
         /\ UNCHANGED <<selection, activeTool, handleSelection, document, undoStack,
                        mouseDrag, dragStart>>

NextFrame ==
    \/ userSelects
    \/ userSwitchesTool
    \/ focusChange
    \/ deleteSelection
    \/ beginMouseDrag
    \/ mouseDragged
    \/ endMouseDrag
    \/ undo
    \/ csgConvexMerge
    \/ csgSubtract
    \/ csgHollow
    \/ csgIntersect

\* The frame with its document and map view, the handle tool left alone.
SpecFrame == Init /\ [][NextFrame]_vars

----------------------------------------------------------------------------
(* The frame's grid commands and the tool bar's grid choice *)

\* What is noted of a grid command: the command, the calls it made and the
\* grid size it found.
GridCalled(op, made) ==
    /\ lastOp' = op
    /\ calls' = made
    /\ gridBefore' = gridSize
    /\ answers' = <<>>
    /\ UNCHANGED <<toolSide, windowVars, mapViewFocus, selection, activeTool, handleSelection,
                   document, undoStack, mouseDrag, dragStart>>

\* Grid::incSize, Grid::decSize, Grid::setSize
incSize(size) == size + 1
decSize(size) == size - 1
setSize(size, newSize) == newSize

\* MapFrame::updateToolBarWidgets, run by gridDidChange whenever the grid
\* notifies a change: the index the grid choice is set to.
updateToolBarWidgets(size) == size - MinSize

\* Fault: the grid size is incremented at MaxSize too.
canIncGridSizeAlways == TRUE

\* MapFrame::canIncGridSize
canIncGridSize == gridSize < MaxSize

\* MapFrame::canDecGridSize
canDecGridSize == gridSize > MinSize

\* MapFrame::incGridSize
incGridSize ==
    IF canIncGridSize
    THEN /\ gridSize' = incSize(gridSize)
         /\ gridChoice' = updateToolBarWidgets(gridSize')
         /\ GridCalled("incGridSize", <<"grid.incSize">>)
    ELSE /\ GridCalled("incGridSize", <<>>)
         /\ UNCHANGED <<gridSize, gridChoice>>

\* MapFrame::decGridSize
decGridSize ==
    IF canDecGridSize
    THEN /\ gridSize' = decSize(gridSize)
         /\ gridChoice' = updateToolBarWidgets(gridSize')
         /\ GridCalled("decGridSize", <<"grid.decSize">>)
    ELSE /\ GridCalled("decGridSize", <<>>)
         /\ UNCHANGED <<gridSize, gridChoice>>

\* The size the handler of the grid choice asks for: index + Grid::MinSize.
gridChoiceSize(index) == index + MinSize

\* The user picks an entry of the grid choice (one entry per size from
\* MinSize to MaxSize): the handler bound in bindEvents calls setGridSize.
gridChoiceActivated ==
    \E index \in 0..(MaxSize - MinSize) :
        /\ gridSize' = setSize(gridSize, gridChoiceSize(index))
        /\ gridChoice' = updateToolBarWidgets(gridSize')
        /\ GridCalled("setGridSize", <<"grid.setSize">>)

NextGrid ==
    \/ incGridSize
    \/ decGridSize
    \/ gridChoiceActivated

\* The frame's grid commands.
SpecGrid == Init /\ [][NextGrid]_vars

FrameTypeOK ==
    /\ mapViewFocus \in BOOLEAN
    /\ selection \in Selections
    /\ activeTool \in Tools
    /\ handleSelection \in 0..MaxSelected
    /\ document \in Contents
    /\ Len(undoStack) <= MaxCommands
    /\ \A k \in 1..Len(undoStack) : undoStack[k] \in Contents
    /\ mouseDrag \in Views \cup {"none"}
    /\ dragStart \in Contents

----------------------------------------------------------------------------
(* Pasting at the cursor position *)

PasteTypes == {"Node", "BrushFace", "Failed"}

\* The pasted nodes while the handler repositions them: hidden or shown,
\* selected or not, and whether the handler's transaction is open.
Pasted == [hidden |-> FALSE, selected |-> TRUE, open |-> FALSE]

\* What a statement of the repositioning does to the pasted nodes, and the
\* answer it gives: pasteObjectsDelta picks in the map view and tells whether
\* the pasted nodes were out of the pick's way; translateObjects moves the
\* selected nodes and tells whether it succeeded.
Effect(P, stmt, ok) ==
    CASE stmt = "Transaction" ->
           [nodes |-> [P EXCEPT !.open = TRUE], answer |-> ""]
      [] stmt = "document.hide" ->
           [nodes |-> [P EXCEPT !.hidden = TRUE, !.selected = FALSE], answer |-> ""]
      [] stmt = "mapView.pasteObjectsDelta" ->
           [nodes |-> P, answer |-> IF P.hidden THEN "hidden" ELSE "visible"]
      [] stmt = "document.show" ->
           [nodes |-> [P EXCEPT !.hidden = FALSE], answer |-> ""]
      [] stmt = "document.selectNodes" ->
           [nodes |-> [P EXCEPT !.selected = ~P.hidden], answer |-> ""]
      [] stmt = "document.translateObjects" ->
           [nodes |-> P, answer |-> IF ok /\ P.selected THEN "true" ELSE "false"]

RECURSIVE Statements(_, _, _)
\* The statements run one after the other: the nodes at the end, the calls
\* made and their answers.
Statements(P, stmts, ok) ==
    IF stmts = <<>>
    THEN [nodes |-> P, calls |-> <<>>, answers |-> <<>>]
    ELSE LET E == Effect(P, Head(stmts), ok)
             R == Statements(E.nodes, Tail(stmts), ok)
         IN  [nodes |-> R.nodes, calls |-> <<Head(stmts)>> \o R.calls,
              answers |-> <<E.answer>> \o R.answers]

\* Fault: the pasted nodes are shown again before the delta is picked.
repositioningShownWhilePicking ==
    <<"Transaction", "document.hide", "document.show", "mapView.pasteObjectsDelta",
      "document.selectNodes", "document.translateObjects">>

\* The statements of MapFrame::pasteAtCursorPosition inside its transaction,
\* up to the translation.
repositioning ==
    <<"Transaction", "document.hide", "mapView.pasteObjectsDelta", "document.show",
      "document.selectNodes", "document.translateObjects">>

\* MapFrame::canPaste, given whether the map view is current and whether the
\* clipboard holds text.
canPaste(current, hasText) == mapViewFocus /\ current /\ hasText

\* MapFrame::pasteAtCursorPosition. The paste is a command of its own; the
\* translation a second one when its transaction is committed.
pasteAtCursorPosition ==
    /\ mouseDrag = "none"
    /\ Len(undoStack) + 2 <= MaxCommands
    /\ \E current \in BOOLEAN, hasText \in BOOLEAN, type \in PasteTypes,
          n \in 0..MaxSelected, ok \in BOOLEAN :
          IF ~canPaste(current, hasText)
          THEN /\ calls' = <<>>
               /\ answers' = <<>>
               /\ UNCHANGED <<selection, document, undoStack>>
          ELSE IF type = "Failed"
          THEN /\ calls' = <<"paste">>
               /\ answers' = <<type>>
               /\ UNCHANGED <<selection, document, undoStack>>
          ELSE IF type = "BrushFace" \/ n = 0
          THEN /\ calls' = <<"paste">>
               /\ answers' = <<type>>
               /\ selection' = (IF type = "Node" THEN NoSelection ELSE selection)
               /\ document' = document + 1
               /\ undoStack' = <<document>> \o undoStack
          ELSE LET R == Statements(Pasted, repositioning, ok)
                   translated == R.answers[Len(R.answers)] = "true"
                   commits == translated
               IN  /\ calls' = <<"paste">> \o R.calls
                                 \o <<IF commits THEN "transaction.commit"
                                      ELSE "transaction.cancel">>
                   /\ answers' = <<type>> \o R.answers \o <<"">>
                   /\ selection' = [brushes |-> n, others |-> 0, faces |-> 0]
                   /\ document' = (IF commits /\ translated THEN document + 2
                                   ELSE document + 1)
                   /\ undoStack' = (IF commits THEN <<document + 1, document>>
                                    ELSE <<document>>) \o undoStack
    /\ lastOp' = "pasteAtCursorPosition"
    /\ UNCHANGED <<toolSide, mapViewFocus, gridVars, windowVars, activeTool,
                   handleSelection, mouseDrag, dragStart>>

NextPaste ==
    \/ userSelects
    \/ focusChange
    \/ undo
    \/ pasteAtCursorPosition

\* The frame's paste command with the user's selecting, focusing and undoing.
SpecPaste == Init /\ [][NextPaste]_vars

----------------------------------------------------------------------------
(* The event loop and the transaction notifications *)

\* The events of the queue: the user's requests and the frame's deferred call.
Requests == {"command", "undo", "redo"}
Deferred == "updateUndoRedoActions"

\* What a notification handler leaves: the event queue, the actions' states,
\* the calls it made and whether it ran updateUndoRedoActions itself.
Handled(Q, A, made, ran) == [queue |-> Q, actions |-> A, calls |-> made, ran |-> ran]

\* Fault: the handler updates the actions itself, inside the notification.
transactionDoneUpdatesNow(Q) ==
    Handled(Q, updateUndoRedoActions, <<"updateUndoRedoActions">>, 1)

\* MapFrame::transactionDone: QTimer::singleShot(0, this, ...) queues the call.
transactionDone(Q) ==
    Handled(Append(Q, Deferred), undoAction, <<"QTimer.singleShot">>, 0)

\* MapFrame::transactionUndone
transactionUndone(Q) ==
    Handled(Append(Q, Deferred), undoAction, <<"QTimer.singleShot">>, 0)

\* What is noted of a step of the event loop or the command processor.
EventCalled(op, made) ==
    /\ lastOp' = op
    /\ calls' = made
    /\ answers' = <<>>
    /\ UNCHANGED <<toolSide, mapViewFocus, gridVars, selection, activeTool,
                   handleSelection, mouseDrag, dragStart, docVars, lifeVars, clockVars>>

\* The notifier calls the frame's handler during a command: the transaction
\* has been executed (or undone), the stacks are not yet modified.
Notify(op, notifier, H, next) ==
    /\ pending' = H.queue
    /\ undoAction' = H.actions
    /\ notified' = notified + 1
    /\ updated' = updated + H.ran
    /\ phase' = next
    /\ EventCalled(op, <<notifier>> \o H.calls)
    /\ UNCHANGED <<document, undoStack, redoDepth>>

\* Nothing to do for the request: no transaction, no notification.
Dropped(op) ==
    /\ pending' = Tail(pending)
    /\ EventCalled(op, <<>>)
    /\ UNCHANGED <<notified, updated, undoAction, phase, document, undoStack, redoDepth>>

\* The user asks for a command, an undo or a redo: the event is queued.
userRequests ==
    /\ lifecycle = "open"
    /\ Len(pending) < MaxPending
    /\ \E e \in Requests : pending' = Append(pending, e)
    /\ EventCalled("userRequests", <<>>)
    /\ UNCHANGED <<notified, updated, undoAction, phase, document, undoStack, redoDepth>>

\* The event loop dispatches a command: it may fail, or execute its
\* transaction and notify transactionDone.
dispatchCommand ==
    /\ lifecycle \in {"open", "closed"}
    /\ phase = "idle" /\ pending # <<>> /\ Head(pending) = "command"
    /\ \E done \in BOOLEAN :
          /\ done => (Len(undoStack) < MaxCommands /\ notified < MaxNotified)
          /\ IF done
             THEN Notify("command", "transactionDoneNotifier",
                         transactionDone(Tail(pending)), "done")
             ELSE Dropped("command")

\* The event loop dispatches an undo: transactionUndone is notified.
dispatchUndo ==
    /\ lifecycle \in {"open", "closed"}
    /\ phase = "idle" /\ pending # <<>> /\ Head(pending) = "undo"
    /\ IF canUndo /\ notified < MaxNotified
       THEN Notify("undoCommand", "transactionUndoneNotifier",
                   transactionUndone(Tail(pending)), "undone")
       ELSE Dropped("undoCommand")

\* The event loop dispatches a redo: the transaction is done again.
dispatchRedo ==
    /\ lifecycle \in {"open", "closed"}
    /\ phase = "idle" /\ pending # <<>> /\ Head(pending) = "redo"
    /\ IF canRedo /\ notified < MaxNotified
       THEN Notify("redoCommand", "transactionDoneNotifier",
                   transactionDone(Tail(pending)), "redone")
       ELSE Dropped("redoCommand")

\* After the notification the command processor modifies its stacks and the
\* command returns to the event loop.
stacksModified ==
    /\ phase # "idle"
    /\ phase' = "idle"
    /\ document' = (IF phase = "undone" THEN undoStack[1] ELSE document + 1)
    /\ undoStack' = (IF phase = "undone" THEN Tail(undoStack)
                     ELSE <<document>> \o undoStack)
    /\ redoDepth' = (CASE phase = "done" -> 0
                       [] phase = "undone" -> redoDepth + 1
                       [] phase = "redone" -> redoDepth - 1)
    /\ EventCalled("stacksModified", <<>>)
    /\ UNCHANGED <<pending, notified, updated, undoAction>>

\* The event loop dispatches the call a notification queued with
\* QTimer::singleShot(0, this, ...): updateUndoRedoActions runs. The frame is
\* the call's context object: once the frame is being destroyed the call is
\* dropped and never dispatched.
dispatchDeferred ==
    /\ lifecycle \in {"open", "closed"}
    /\ phase = "idle" /\ pending # <<>> /\ Head(pending) = Deferred
    /\ pending' = Tail(pending)
    /\ undoAction' = updateUndoRedoActions
    /\ updated' = updated + 1
    /\ EventCalled("dispatchDeferred", <<"updateUndoRedoActions">>)
    /\ UNCHANGED <<notified, phase, document, undoStack, redoDepth>>

----------------------------------------------------------------------------
(* Input events and the periodic autosave *)

\* The events an object can get: the six kinds the filter counts as input,
\* and a kind it does not count.
InputEvents ==
    {"MouseButtonPress", "MouseButtonRelease", "MouseButtonDblClick", "MouseMove",
     "KeyPress", "KeyRelease"}
EventTypes == InputEvents \cup {"Wheel"}

\* The autosave waits for more than this many seconds without input.
AutosaveDelay == 2

\* Fault: key releases are not taken for input.
eventFilterSetsTimeButKeyRelease(type) == type \in InputEvents \ {"KeyRelease"}

\* MapFrame::eventFilter: the kinds of event that set m_lastInputTime.
eventFilterSetsTime(type) == type \in InputEvents

\* The condition of MapFrame::triggerAutosave.
autosaveDue == ~mouseButtons /\ now - m_lastInputTime > AutosaveDelay

\* What is noted of a step of the clock, the input or the timer.
ClockCalled(op, made) ==
    /\ lastOp' = op
    /\ calls' = made
    /\ answers' = <<>>
    /\ UNCHANGED <<toolSide, mapViewFocus, gridVars, selection, activeTool,
                   handleSelection, document, undoStack, mouseDrag, dragStart,
                   docVars, eventVars, lifecycle, connected, documentHeld,
                   finalAutosave>>

\* A second passes.
tick ==
    /\ now < MaxTime
    /\ now' = now + 1
    /\ ClockCalled("tick", <<>>)
    /\ UNCHANGED <<m_lastInputTime, inputAt, mouseButtons, filtered, children>>

\* An event is sent to the frame, to one of its children that take events
\* of the mouse and the keyboard, or to an object outside the frame. The
\* filter sees it if it is installed on the target. A button goes down only
\* when none is down, and up only when one is.
inputEvent ==
    /\ \E target \in {Frame, Outside} \cup (Range(children) \ Delayers),
          type \in EventTypes :
          /\ type = "MouseButtonPress" => ~mouseButtons
          /\ type = "MouseButtonRelease" => mouseButtons
          /\ mouseButtons' = (CASE type = "MouseButtonPress" -> TRUE
                                 [] type = "MouseButtonRelease" -> FALSE
                                 [] OTHER -> mouseButtons)
          /\ m_lastInputTime' = (IF target \in filtered /\ eventFilterSetsTime(type)
                                 THEN now ELSE m_lastInputTime)
          /\ inputAt' = (IF target # Outside /\ type \in InputEvents
                         THEN now ELSE inputAt)
          /\ ClockCalled("inputEvent", <<type>>)
    /\ UNCHANGED <<now, filtered, children>>

\* A child is added to the frame: the filter sees ChildAdded and installs
\* itself on the child.
childAdded ==
    /\ \E c \in Widgets \ Range(children) :
          /\ children' = Append(children, c)
          /\ filtered' = (IF Frame \in filtered THEN filtered \cup {c} ELSE filtered)
    /\ ClockCalled("childAdded", <<"installEventFilter">>)
    /\ UNCHANGED <<now, m_lastInputTime, inputAt, mouseButtons>>

\* A child is removed from the frame: the filter sees ChildRemoved and
\* removes itself from the child. The signal delayers are members of the
\* frame and stay until it is destroyed.
childRemoved ==
    /\ \E k \in 1..Len(children) :
          /\ children[k] \notin Delayers
          /\ children' = SubSeq(children, 1, k - 1) \o SubSeq(children, k + 1, Len(children))
          /\ filtered' = (IF Frame \in filtered THEN filtered \ {children[k]} ELSE filtered)
    /\ ClockCalled("childRemoved", <<"removeEventFilter">>)
    /\ UNCHANGED <<now, m_lastInputTime, inputAt, mouseButtons>>

\* MapFrame::triggerAutosave, run by the autosave timer.
triggerAutosave ==
    /\ lifecycle \in {"open", "closed"}
    /\ ClockCalled("triggerAutosave",
                   IF autosaveDue THEN <<"autosaver.triggerAutosave">> ELSE <<>>)
    /\ UNCHANGED <<clockVars, children>>

NextAutosave ==
    \/ tick
    \/ inputEvent
    \/ childAdded
    \/ childRemoved
    \/ triggerAutosave

\* The frame's autosave timer with the clock and the user's input.
SpecAutosave == Init /\ [][NextAutosave]_vars

----------------------------------------------------------------------------
(* The frame's window: saving, closing and replacing the document *)

\* The part of the state the window's commands read and change.
DocState == [modified |-> modified, persistent |-> persistent,
             compilationDialog |-> compilationDialog, registered |-> registered,
             loaded |-> loaded, updated |-> updated, undoAction |-> undoAction]

\* MapFrame::documentWasCleared, connected to the document's
\* documentWasClearedNotifier: it calls updateUndoRedoActions at once.
documentWasCleared(D) ==
    [D EXCEPT !.updated = @ + 1, !.undoAction = updateUndoRedoActions]

\* MapFrame::documentDidChange, connected to the document's notifiers
\* documentWasNewed, documentWasLoaded and documentWasSaved: it calls
\* updateUndoRedoActions at once.
documentDidChange(D) ==
    [D EXCEPT !.undoAction = updateUndoRedoActions, !.updated = @ + 1]

\* What a helper hands back: its return value, the state it leaves and the
\* calls it made with their answers.
Did(r, D, made, got) == [ret |-> r, doc |-> D, calls |-> made, answers |-> got]

\* The answers of the user, of the file system and of the document in one
\* stretch of a command.
QuestionAnswers == {"Yes", "No", "Cancel"}
WindowInputs ==
    [answer : QuestionAnswers, nameGiven : BOOLEAN, saveOk : BOOLEAN,
     dialogCloses : BOOLEAN, loadOk : BOOLEAN]

\* Before its first dialog a command has no answer of the user to read.
StartInputs == {in \in WindowInputs : in.answer = "Yes" /\ in.nameGiven}

\* Where a command has got to: the state it leaves, the calls it made so far
\* with their answers, and the modal dialog it waits in ("done" when it has
\* returned). A modal dialog runs the event loop until it is answered.
Go(op, D, made, got, wait) ==
    [op |-> op, doc |-> D, calls |-> made, answers |-> got, at |-> wait]

\* The command opens a modal dialog and waits for its answer.
Wait(op, D, made, got, dialog) ==
    Go(op, D, made \o <<dialog>>, got \o <<"waiting">>, dialog)

\* The answer of the dialog the command waited in takes its place.
Answer(got, a) == [got EXCEPT ![Len(got)] = a]

\* Fault: a compilation dialog that refuses to close is taken for closed.
closeCompileDialogAlways(D, in) ==
    IF ~D.compilationDialog
    THEN Did(TRUE, D, <<>>, <<>>)
    ELSE IF in.dialogCloses
    THEN Did(TRUE, [D EXCEPT !.compilationDialog = FALSE],
             <<"compilationDialog.close">>, <<"true">>)
    ELSE Did(TRUE, D, <<"compilationDialog.close">>, <<"false">>)

\* MapFrame::closeCompileDialog
closeCompileDialog(D, in) ==
    IF ~D.compilationDialog
    THEN Did(TRUE, D, <<>>, <<>>)
    ELSE IF in.dialogCloses
    THEN Did(TRUE, [D EXCEPT !.compilationDialog = FALSE],
             <<"compilationDialog.close">>, <<"true">>)
    ELSE Did(FALSE, D, <<"compilationDialog.close">>, <<"false">>)

\* The document's call that replaces the map, by command.
ReplaceCall(op) ==
    IF op = "newDocument" THEN "document.newDocument" ELSE "document.loadDocument"

\* newDocument and openDocument after confirmOrDiscardChanges returned true:
\* closeCompileDialog, then the document's newDocument or loadDocument, whose
\* error is handed on as the result. A document that is replaced notifies
\* that it was cleared and then that it was newed or loaded.
Replace(op, D, made, got, in) ==
    LET C == closeCompileDialog(D, in)
        m == made \o C.calls
        g == got \o C.answers
    IN  IF ~C.ret
        THEN Go(op, C.doc, m \o <<"return">>, g \o <<"false">>, "done")
        ELSE IF ~in.loadOk
        THEN Go(op, C.doc, m \o <<ReplaceCall(op), "return">>,
                g \o <<"error", "error">>, "done")
        ELSE Go(op, documentDidChange(documentWasCleared(
                        [C.doc EXCEPT !.modified = FALSE,
                                      !.persistent = (op = "openDocument"),
                                      !.loaded = @ + 1])),
                m \o <<ReplaceCall(op), "return">>, g \o <<"ok", "true">>, "done")

\* The caller of confirmOrDiscardChanges goes on with what it returned.
Confirmed(op, D, made, got, r, in) ==
    IF op = "closeEvent"
    THEN IF r
         THEN Go(op, [D EXCEPT !.registered = FALSE],
                 made \o <<"frameManager.removeFrame", "event.accept">>,
                 got \o <<"", "">>, "done")
         ELSE Go(op, D, made \o <<"event.ignore">>, got \o <<"">>, "done")
    ELSE IF r
         THEN Replace(op, D, made, got, in)
         ELSE Go(op, D, made \o <<"return">>, got \o <<"false">>, "done")

\* saveDocument or saveDocumentAs has returned r: to the user's command, or
\* to confirmOrDiscardChanges, which returns it in turn.
Saved(op, D, made, got, r, in) ==
    IF op \in {"saveDocument", "saveDocumentAs"}
    THEN Go(op, D, made \o <<"return">>, got \o <<IF r THEN "true" ELSE "false">>, "done")
    ELSE Confirmed(op, D, made, got, r, in)

\* The document saves: it succeeds and notifies that it was saved, or it
\* throws and the catch block shows QMessageBox::critical before it returns
\* false.
SaveAttempt(op, D, call, made, got, in) ==
    IF in.saveOk
    THEN Saved(op, documentDidChange(
                       [D EXCEPT !.modified = FALSE,
                                 !.persistent = (@ \/ call = "document.saveDocumentAs")]),
               made \o <<call>>, got \o <<"ok">>, TRUE, in)
    ELSE Wait(op, D, made \o <<call>>, got \o <<"threw">>, "QMessageBox.critical")

\* MapFrame::saveDocumentAs up to its file dialog.
SaveAs(op, D, made, got) == Wait(op, D, made, got, "QFileDialog.getSaveFileName")

\* MapFrame::saveDocument up to its first dialog, if any.
Save(op, D, made, got, in) ==
    IF D.persistent
    THEN SaveAttempt(op, D, "document.saveDocument", made, got, in)
    ELSE SaveAs(op, D, made, got)

\* Fault: the user's Cancel is taken for a No.
confirmOrDiscardChangesCancelDiscards(answer) ==
    IF answer = "Yes" THEN "save" ELSE "true"

\* MapFrame::confirmOrDiscardChanges, the switch on the user's answer: save
\* and return what saving returns, return true, or return false.
confirmOrDiscardChanges(answer) ==
    CASE answer = "Yes" -> "save"
      [] answer = "No" -> "true"
      [] OTHER -> "false"

\* MapFrame::confirmOrDiscardChanges up to its question, if any.
Confirm(op, D, made, got, in) ==
    IF ~D.modified
    THEN Confirmed(op, D, made, got, TRUE, in)
    ELSE Wait(op, D, made, got, "QMessageBox.question")

\* MapFrame::revertDocument after the user confirmed: the document loads its
\* file again; an error is logged.
Revert(op, D, made, got, in) ==
    IF in.loadOk
    THEN Go(op, documentDidChange(documentWasCleared(
                    [D EXCEPT !.modified = FALSE, !.loaded = @ + 1])),
            made \o <<"document.loadDocument">>, got \o <<"ok">>, "done")
    ELSE Go(op, D, made \o <<"document.loadDocument">>, got \o <<"error">>, "done")

\* A command of the window from its call to its first modal dialog, or to
\* its end if it opens none.
Start(op, D, in) ==
    CASE op = "closeEvent" ->
           LET C == closeCompileDialog(D, in)
           IN  IF ~C.ret
               THEN Go(op, C.doc, C.calls \o <<"event.ignore">>,
                       C.answers \o <<"">>, "done")
               ELSE Confirm(op, C.doc, C.calls, C.answers, in)
      [] op \in {"newDocument", "openDocument"} -> Confirm(op, D, <<>>, <<>>, in)
      [] op = "saveDocument" -> Save(op, D, <<>>, <<>>, in)
      [] op = "saveDocumentAs" -> SaveAs(op, D, <<>>, <<>>)
      [] op = "revertDocument" ->
           IF ~D.persistent
           THEN Go(op, D, <<>>, <<>>, "done")
           ELSE IF ~D.modified
           THEN Revert(op, D, <<>>, <<>>, in)
           ELSE Wait(op, D, <<>>, <<>>, "QMessageBox.exec")

\* The command goes on from the answer of the dialog it waited in, to its
\* next dialog or to its end.
Resume(C, D, in) ==
    CASE C.at = "QMessageBox.question" ->
           LET got == Answer(C.answers, in.answer)
               then == confirmOrDiscardChanges(in.answer)
           IN  IF then = "save"
               THEN Save(C.op, D, C.calls, got, in)
               ELSE Confirmed(C.op, D, C.calls, got, then = "true", in)
      [] C.at = "QFileDialog.getSaveFileName" ->
           IF in.nameGiven
           THEN SaveAttempt(C.op, D, "document.saveDocumentAs", C.calls,
                            Answer(C.answers, "name"), in)
           ELSE Saved(C.op, D, C.calls, Answer(C.answers, ""), FALSE, in)
      [] C.at = "QMessageBox.critical" ->
           Saved(C.op, D, C.calls, Answer(C.answers, "Ok"), FALSE, in)
      [] C.at = "QMessageBox.exec" ->
           IF in.answer = "Yes"
           THEN Revert(C.op, D, C.calls, Answer(C.answers, "Revert"), in)
           ELSE Go(C.op, D, C.calls, Answer(C.answers, "Cancel"), "done")

\* What is noted of a step of the window: the command, the calls it made
\* and their answers. It leaves the tool, the map view and the grid alone.
WindowCalled(op, made, got) ==
    /\ lastOp' = op
    /\ calls' = made
    /\ answers' = got
    /\ UNCHANGED <<toolSide, mapViewFocus, gridVars, selection, handleSelection,
                   mouseDrag, dragStart>>

\* The frame's children without the modal dialog that was answered.
NotModal(c) == c # ModalDialog
WithoutDialog(C) == SelectSeq(C, NotModal)

\* A stretch of a command has run: its effects on the document, the dialog
\* and the frame manager, and the command that waits, if it does. A frame
\* whose close event was accepted is closed. The dialog the command waited
\* in is deleted (the filter sees ChildRemoved and removes itself from it);
\* the dialog it waits in now is a new child of the frame (the filter sees
\* ChildAdded and installs itself on it). The updates of the undo and redo
\* actions are counted up to MaxUpdates.
CommandRan(P) ==
    /\ P.doc.updated # updated => P.doc.updated <= MaxUpdates
    /\ updated' = P.doc.updated
    /\ undoAction' = P.doc.undoAction
    /\ children' = (IF P.at = "done" THEN WithoutDialog(children)
                    ELSE Append(WithoutDialog(children), ModalDialog))
    /\ filtered' = (IF P.at = "done" THEN filtered \ {ModalDialog}
                    ELSE filtered \cup {ModalDialog})
    /\ modified' = P.doc.modified
    /\ persistent' = P.doc.persistent
    /\ compilationDialog' = P.doc.compilationDialog
    /\ registered' = P.doc.registered
    /\ loaded' = P.doc.loaded
    /\ lifecycle' = (IF P.doc.registered THEN lifecycle ELSE "closed")
    /\ command' = (IF P.at = "done" THEN NoCommand
                   ELSE [op |-> P.op, at |-> P.at, calls |-> P.calls,
                         answers |-> P.answers])
    /\ WindowCalled(P.op, P.calls, P.answers)
    /\ UNCHANGED <<activeTool, document, undoStack, connected, documentHeld,
                   finalAutosave, pending, notified, redoDepth, phase, timeVars>>

\* The user calls a command of the window; none is waiting in a dialog.
CommandCalled(op) ==
    /\ lifecycle = "open"
    /\ phase = "idle"
    /\ command = NoCommand
    /\ \E in \in StartInputs : CommandRan(Start(op, DocState, in))

\* The user activates or deactivates a tool of the map view.
userActivatesTool ==
    /\ lifecycle = "open"
    /\ command = NoCommand
    /\ activeTool' \in {"none", "vertex"} \ {activeTool}
    /\ WindowCalled("userActivatesTool", <<>>, <<>>)
    /\ UNCHANGED <<document, undoStack, docVars, lifeVars, eventVars, clockVars>>

\* The user changes the map by a command: the document is modified, the
\* command is on the undo stack and transactionDone has queued the update of
\* the undo and redo actions.
userEdits ==
    /\ lifecycle = "open"
    /\ command = NoCommand
    /\ phase = "idle"
    /\ Len(undoStack) < MaxCommands
    /\ notified < MaxNotified
    /\ modified' = TRUE
    /\ document' = document + 1
    /\ undoStack' = <<document>> \o undoStack
    /\ redoDepth' = 0
    /\ notified' = notified + 1
    /\ LET H == transactionDone(pending)
       IN  /\ pending' = H.queue
           /\ undoAction' = H.actions
           /\ updated' = updated + H.ran
           /\ WindowCalled("userEdits", <<"transactionDoneNotifier">> \o H.calls,
                           <<"", "">>)
    /\ UNCHANGED <<persistent, compilationDialog, registered, loaded, command,
                   activeTool, lifeVars, phase, clockVars>>

\* The number of the next compilation dialog among the frame's children.
NewDialog == Constructed + 1 + Cardinality({c \in Range(children) : c > Constructed})

\* MapFrame::showCompileDialog. A new dialog is a child of the frame: the
\* filter sees ChildAdded and installs itself on it. A dialog that was
\* closed stays a child of the frame.
showCompileDialog ==
    /\ lifecycle = "open"
    /\ command = NoCommand
    /\ IF compilationDialog
       THEN /\ WindowCalled("showCompileDialog", <<"showModelessDialog">>, <<"">>)
            /\ UNCHANGED <<compilationDialog, children, filtered>>
       ELSE /\ NewDialog <= Constructed + MaxDialogs
            /\ compilationDialog' = TRUE
            /\ children' = Append(children, NewDialog)
            /\ filtered' = filtered \cup {NewDialog}
            /\ WindowCalled("showCompileDialog",
                            <<"new CompilationDialog", "installEventFilter",
                              "showModelessDialog">>, <<"", "", "">>)
    /\ UNCHANGED <<modified, persistent, registered, loaded, command, activeTool,
                   document, undoStack, lifecycle, connected, documentHeld,
                   finalAutosave, eventVars, timeVars>>

\* MapFrame::closeEvent. An accepted close event closes the window; the
\* frame is then deleted (WA_DeleteOnClose).
closeEvent ==
    /\ lastOp' = "closeEvent"
    /\ CommandCalled("closeEvent")

\* MapFrame::newDocument
newDocument ==
    /\ lastOp' = "newDocument"
    /\ loaded < MaxDocuments
    /\ CommandCalled("newDocument")

\* MapFrame::openDocument
openDocument ==
    /\ lastOp' = "openDocument"
    /\ loaded < MaxDocuments
    /\ CommandCalled("openDocument")

\* MapFrame::saveDocument
saveDocument ==
    /\ lastOp' = "saveDocument"
    /\ CommandCalled("saveDocument")

\* MapFrame::saveDocumentAs
saveDocumentAs ==
    /\ lastOp' = "saveDocumentAs"
    /\ CommandCalled("saveDocumentAs")

\* MapFrame::revertDocument
revertDocument ==
    /\ lastOp' = "revertDocument"
    /\ loaded < MaxDocuments
    /\ CommandCalled("revertDocument")

\* What a command reads when it goes on from a dialog: the dialog's answer
\* and the outcomes of the calls that can follow it. After a message box that
\* reports a failed save it reads nothing; the box that asks to revert is
\* answered by Revert (here "Yes") or Cancel.
ResumeInputs(at) ==
    {in \in WindowInputs :
        /\ at = "QMessageBox.question" => in.nameGiven
        /\ at = "QFileDialog.getSaveFileName" => in.answer = "Yes"
        /\ at = "QMessageBox.critical" =>
              (in.answer = "Yes" /\ in.nameGiven /\ in.saveOk
                 /\ in.dialogCloses /\ in.loadOk)
        /\ at = "QMessageBox.exec" =>
              (in.answer # "No" /\ in.nameGiven /\ in.saveOk /\ in.dialogCloses)}

\* The user answers the modal dialog a command waits in; the command goes on.
dialogAnswered ==
    /\ command # NoCommand
    /\ \E in \in ResumeInputs(command.at) : CommandRan(Resume(command, DocState, in))

----------------------------------------------------------------------------
(* The frame's destructor *)

\* Fault: the document is released before the children are deleted.
destructorOrderReleaseFirst ==
    <<"deactivateTool", "disconnect", "releaseDocument", "deleteChildren",
      "triggerAutosave", "gone">>

\* The steps of MapFrame::~MapFrame in the order of the code; the children are
\* deleted one per step.
destructorOrder ==
    <<"deactivateTool", "disconnect", "deleteChildren", "triggerAutosave",
      "releaseDocument", "gone">>

\* The step after the given one.
After(step) ==
    destructorOrder[(CHOOSE k \in 1..Len(destructorOrder) : destructorOrder[k] = step) + 1]

\* What is noted of a step of the destructor.
Destructed(step, made) ==
    /\ lastOp' = step
    /\ calls' = made
    /\ answers' = <<>>
    /\ UNCHANGED <<toolSide, mapViewFocus, gridVars, selection, handleSelection,
                   document, undoStack, mouseDrag, dragStart, docVars, eventVars,
                   timeVars>>

\* The frame closed by an accepted close event is deleted: ~MapFrame begins.
destructorBegins ==
    /\ lifecycle = "closed"
    /\ phase = "idle"
    /\ lifecycle' = destructorOrder[1]
    /\ Destructed("~MapFrame", <<"document.setParentLogger">>)
    /\ UNCHANGED <<activeTool, children, filtered, connected, documentHeld,
                   finalAutosave>>

\* m_mapView->deactivateTool()
deactivateTool ==
    /\ lifecycle = "deactivateTool"
    /\ activeTool' = "none"
    /\ lifecycle' = After("deactivateTool")
    /\ Destructed("deactivateTool", <<"mapView.deactivateTool">>)
    /\ UNCHANGED <<children, filtered, connected, documentHeld, finalAutosave>>

\* m_notifierConnection.disconnect(); removeRecentDocumentsMenu()
disconnect ==
    /\ lifecycle = "disconnect"
    /\ connected' = FALSE
    /\ lifecycle' = After("disconnect")
    /\ Destructed("disconnect",
                  <<"notifierConnection.disconnect", "removeRecentDocumentsMenu">>)
    /\ UNCHANGED <<activeTool, children, filtered, documentHeld, finalAutosave>>

\* qDeleteAll(rbegin(children), rend(children)): the last child goes first.
\* The frame's filter sees the ChildRemoved of each and removes itself from
\* the child.
deleteChildren ==
    /\ lifecycle = "deleteChildren"
    /\ IF children = <<>>
       THEN /\ lifecycle' = After("deleteChildren")
            /\ Destructed("deleteChildren", <<>>)
            /\ UNCHANGED <<children, filtered>>
       ELSE /\ children' = SubSeq(children, 1, Len(children) - 1)
            /\ filtered' = filtered \ {children[Len(children)]}
            /\ Destructed("deleteChildren", <<"delete child", "removeEventFilter">>)
            /\ UNCHANGED lifecycle
    /\ UNCHANGED <<activeTool, connected, documentHeld, finalAutosave>>

\* m_autosaver->triggerAutosave(logger) in the destructor
finalAutosaveTriggered ==
    /\ lifecycle = "triggerAutosave"
    /\ finalAutosave' = TRUE
    /\ lifecycle' = After("triggerAutosave")
    /\ Destructed("finalAutosave", <<"autosaver.triggerAutosave">>)
    /\ UNCHANGED <<activeTool, children, filtered, connected, documentHeld>>

\* m_document->setViewEffectsService(nullptr); m_document.reset()
releaseDocument ==
    /\ lifecycle = "releaseDocument"
    /\ documentHeld' = FALSE
    /\ lifecycle' = After("releaseDocument")
    /\ Destructed("releaseDocument",
                  <<"document.setViewEffectsService", "document.reset">>)
    /\ UNCHANGED <<activeTool, children, filtered, connected, finalAutosave>>

NextEvents ==
    \/ userRequests
    \/ dispatchCommand
    \/ dispatchUndo
    \/ dispatchRedo
    \/ stacksModified
    \/ dispatchDeferred
    \/ focusChange
    \/ closeEvent
    \/ destructorBegins
    \/ deactivateTool
    \/ disconnect
    \/ deleteChildren
    \/ finalAutosaveTriggered
    \/ releaseDocument

\* The frame's event loop with the document's commands, the focus changes
\* and the closing and destruction of the frame.
SpecEvents == Init /\ [][NextEvents]_vars

\* The event loop goes on dispatching the oldest event of its queue, and a
\* command that has begun runs to its end.
SpecEventsFair ==
    /\ SpecEvents
    /\ WF_vars(dispatchCommand \/ dispatchUndo \/ dispatchRedo \/ dispatchDeferred)
    /\ WF_vars(stacksModified)

NextWindow ==
    \/ userActivatesTool
    \/ userEdits
    \/ showCompileDialog
    \/ closeEvent
    \/ newDocument
    \/ openDocument
    \/ saveDocument
    \/ saveDocumentAs
    \/ revertDocument
    \/ dialogAnswered
    \/ tick
    \/ triggerAutosave
    \/ dispatchDeferred
    \/ destructorBegins
    \/ deactivateTool
    \/ disconnect
    \/ deleteChildren
    \/ finalAutosaveTriggered
    \/ releaseDocument

\* The frame's window from its creation to its destruction.
SpecWindow == Init /\ [][NextWindow]_vars

----------------------------------------------------------------------------
(* Properties *)

\* A step in which the operation op ran.
Ran(op) == lastOp' = op

OnlyUnselectedShown == [handle |-> 1, selected |-> 0, guide |-> 0]
OnlySelectedShown == [handle |-> 0, selected |-> 1, guide |-> 1]

\* C1: the mode only changes INACTIVE->ACTIVE by activated, ACTIVE->SELECTED by
\* leftMouseDown on a hit, SELECTED->ACTIVE by leftMouseUp, SELECTED->DRAGGING
\* by doBeginLeftDrag on a hit, DRAGGING->ACTIVE by doEndLeftDrag, and from any
\* mode but INACTIVE to INACTIVE by deactivated.
C1_ModeTransitions ==
    [][ m_state' # m_state =>
          \/ m_state = INACTIVE /\ m_state' = ACTIVE /\ Ran("activated")
          \/ m_state = ACTIVE /\ m_state' = SELECTED /\ Ran("leftMouseDown")
                /\ hitArg' # NoHit
          \/ m_state = SELECTED /\ m_state' = ACTIVE /\ Ran("leftMouseUp")
          \/ m_state = SELECTED /\ m_state' = DRAGGING /\ Ran("doBeginLeftDrag")
                /\ hitArg' # NoHit
          \/ m_state = DRAGGING /\ m_state' = ACTIVE /\ Ran("doEndLeftDrag")
          \/ m_state # INACTIVE /\ m_state' = INACTIVE /\ Ran("deactivated") ]_vars

\* A drag ran from doBeginLeftDrag to doEndLeftDrag.
C1_Witness == lastOp = "doEndLeftDrag" /\ m_state = ACTIVE

\* C2: leftMouseDown in ACTIVE on a handle hit records the hit's brush and
\* index, leaves exactly the selected-handle and guide figures registered
\* (showing that handle), enters SELECTED and returns true; with no handle hit
\* it returns false and leaves mode, handle and figures as they were.
C2_PointerDown ==
    [][ (Ran("leftMouseDown") /\ m_state = ACTIVE) =>
          IF hitArg' # NoHit
          THEN /\ m_brush' = hitArg'.brush
               /\ m_index' = hitArg'.index
               /\ figures.handle = 1
               /\ figures' = OnlySelectedShown
               /\ depicted' = <<hitArg'.brush, hitArg'.index>>
               /\ m_state' = SELECTED
               /\ ret' = TRUE
          ELSE /\ ret' = FALSE
               /\ UNCHANGED <<toolVars, figVars>> ]_vars

\* leftMouseDown took a handle of the second brush although another hit came first.
C2_Witness ==
    /\ lastOp = "leftMouseDown" /\ ret
    /\ m_state = SELECTED /\ m_brush = 2 /\ m_index = 1
    /\ figures = OnlySelectedShown

\* C3: leftMouseUp in SELECTED clears the handle (brush NULL, index -1), leaves
\* exactly the unselected aggregate registered and returns to ACTIVE;
\* leftMouseUp in ACTIVE returns false and changes nothing.
C3_PointerUp ==
    [][ Ran("leftMouseUp") =>
          /\ m_state = SELECTED =>
                /\ m_brush' = NULL
                /\ m_index' = GoneIndex
                /\ figures' = OnlyUnselectedShown
                /\ ~m_selectedHandleFigure' /\ ~m_guideFigure' /\ m_handleFigure'
                /\ m_state' = ACTIVE
          /\ m_state = ACTIVE =>
                /\ ret' = FALSE
                /\ UNCHANGED <<toolVars, figVars, listeners, brushes, undoDepth,
                               dragVars>> ]_vars

\* leftMouseUp let go of a selected handle.
C3_Witness ==
    /\ lastOp = "leftMouseUp" /\ ret
    /\ m_state = ACTIVE /\ m_brush = NULL /\ figures = OnlyUnselectedShown

\* C4: doBeginLeftDrag in SELECTED on a handle hit opens exactly one undo
\* transaction, records the hit's brush and index and the hit point as the
\* initial point, enters DRAGGING and returns true.
C4_BeginDrag ==
    [][ (Ran("doBeginLeftDrag") /\ m_state = SELECTED /\ hitArg' # NoHit) =>
          /\ undoDepth' = undoDepth + 1
          /\ m_brush' = hitArg'.brush
          /\ m_index' = hitArg'.index
          /\ initialPoint' = hitArg'.hitPoint
          /\ referencePoint' = hitArg'.hitPoint
          /\ brushes' = brushes
          /\ m_state' = DRAGGING
          /\ ret' = TRUE ]_vars

\* A drag began on another handle than the one leftMouseDown selected.
C4_Witness ==
    /\ lastOp = "doBeginLeftDrag" /\ ret
    /\ m_state = DRAGGING /\ undoDepth = 1
    /\ depicted # <<m_brush, m_index>>
    /\ initialPoint = movePosition(m_brush, m_index) + 1

\* C5: doBeginLeftDrag with no handle hit returns false and changes nothing:
\* the undo depth, the mode, the handle and the figures stay as they were.
C5_BeginDragNoHit ==
    [][ (Ran("doBeginLeftDrag") /\ hitArg' = NoHit) =>
          /\ ret' = FALSE
          /\ UNCHANGED <<toolVars, figVars, listeners, brushes, undoDepth,
                         dragVars>> ]_vars

\* doBeginLeftDrag was refused in SELECTED.
C5_Witness ==
    /\ lastOp = "doBeginLeftDrag" /\ ~ret /\ hitArg = NoHit
    /\ m_state = SELECTED

\* The brush move call a step made.
Move == moveLog[1]

\* C6: a drag step in DRAGGING whose snapped delta is null makes no brush move
\* call (no call is ever made with a null delta), and a step that makes no
\* call leaves the brush, the handle index and referencePoint as they were and
\* returns true.
C6_NullDelta ==
    [][ (Ran("doLeftDrag") /\ m_state = DRAGGING) =>
          /\ moveLog' # <<>> =>
                /\ Len(moveLog') = 1
                /\ Move'.delta # 0
                /\ \E c \in Points :
                      Move'.delta = moveDelta(movePosition(m_brush, m_index),
                                              c - referencePoint)
          /\ moveLog' = <<>> =>
                /\ \E c \in Points :
                      moveDelta(movePosition(m_brush, m_index), c - referencePoint) = 0
                /\ ret' = TRUE
                /\ UNCHANGED <<toolVars, figVars, brushes, undoDepth, dragVars>> ]_vars

\* A drag step with a null delta ran after the pointer had moved the handle.
C6_Witness ==
    /\ lastOp = "doLeftDrag" /\ ret /\ moveLog = <<>>
    /\ m_state = DRAGGING /\ applied # 0

\* A drag step that moved the brush and returned a valid index advances
\* referencePoint by the delta and takes the returned index.
C7_StepAdvances ==
    (/\ Ran("doLeftDrag") /\ m_state = DRAGGING
     /\ moveLog' # <<>> /\ Move'.moved /\ Move'.newIndex # GoneIndex) =>
        /\ Move'.brush = m_brush /\ Move'.index = m_index
        /\ referencePoint' = referencePoint + Move'.delta
        /\ m_index' = Move'.newIndex
        /\ movePosition(m_brush, m_index) + Move'.delta
              = brushes'[m_brush][m_index' + 1]
        /\ ret' = TRUE

\* referencePoint is the initial point plus the deltas applied in this drag.
ReferenceTracksApplied == referencePoint = initialPoint + applied

\* C7 (as stated): a moving step with a valid returned index advances
\* referencePoint by the delta and takes the index, and throughout a drag
\* referencePoint is the initial point plus the sum of the applied deltas.
C7_Original ==
    [][ /\ C7_StepAdvances
        /\ m_state' = DRAGGING => ReferenceTracksApplied' ]_vars

\* C7 (amended): the same, the sum holding throughout a drag until a step
\* returns abort (the handle index is -1).
C7_ReferencePoint ==
    [][ /\ C7_StepAdvances
        /\ (m_state' = DRAGGING /\ m_index' # GoneIndex) => ReferenceTracksApplied' ]_vars

\* A second move of a drag was applied and gave the handle another index.
C7_Witness ==
    /\ lastOp = "doLeftDrag" /\ ret /\ m_state = DRAGGING
    /\ moveLog # <<>> /\ moveLog[1].moved
    /\ moveLog[1].newIndex # moveLog[1].index /\ m_index = moveLog[1].newIndex
    /\ applied # moveLog[1].delta
    /\ referencePoint = initialPoint + applied

\* C8: a drag step whose brush move returns index -1 returns false, and from
\* then on no step changes the brushes while the tool stays in that drag.
C8_AbortStopsMoves ==
    [][ /\ (/\ Ran("doLeftDrag") /\ m_state = DRAGGING
            /\ moveLog' # <<>> /\ Move'.newIndex = GoneIndex) =>
               (ret' = FALSE /\ m_state' = DRAGGING /\ m_index' = GoneIndex)
        /\ (m_state = DRAGGING /\ m_index = GoneIndex) =>
               /\ brushes' = brushes
               /\ moveLog' = <<>>
               /\ m_state' = DRAGGING => m_index' = GoneIndex ]_vars

\* A drag step merged the handle into its neighbour and returned abort.
C8_Witness ==
    /\ lastOp = "doLeftDrag" /\ ~ret /\ m_state = DRAGGING
    /\ moveLog # <<>> /\ moveLog[1].newIndex = GoneIndex /\ moveLog[1].moved
    /\ m_index = GoneIndex

\* C9: a drag step whose move is rejected (moved = false, index unchanged)
\* leaves brush, handle and referencePoint as they were, returns true and
\* stays in DRAGGING; a later step of that drag that moves is applied.
C9_RejectedStep ==
    [][ /\ (/\ Ran("doLeftDrag") /\ m_state = DRAGGING
            /\ moveLog' # <<>> /\ ~Move'.moved /\ Move'.newIndex = m_index) =>
               /\ ret' = TRUE
               /\ rejected'
               /\ UNCHANGED <<toolVars, brushes, referencePoint, initialPoint,
                              applied, undoDepth, figures>>
        /\ (/\ Ran("doLeftDrag") /\ m_state = DRAGGING /\ rejected
            /\ moveLog' # <<>> /\ Move'.moved) =>
               /\ brushes' # brushes
               /\ brushes' = [brushes EXCEPT ![m_brush] =
                                 moveVertex(brushes[m_brush], m_index, Move'.delta).verts]
               /\ applied' = applied + Move'.delta ]_vars

\* After a rejected step, a later step of the same drag moved the handle.
C9_Witness ==
    /\ lastOp = "doLeftDrag" /\ ret /\ m_state = DRAGGING
    /\ rejected
    /\ moveLog # <<>> /\ moveLog[1].moved /\ m_index # GoneIndex

\* C10: doEndLeftDrag in DRAGGING ends one undo transaction, leaves exactly
\* the unselected aggregate registered, clears the handle and enters ACTIVE.
C10_EndDrag ==
    [][ (Ran("doEndLeftDrag") /\ m_state = DRAGGING) =>
          /\ undoDepth > 0
          /\ undoDepth' = undoDepth - 1
          /\ figures' = OnlyUnselectedShown
          /\ m_handleFigure' /\ ~m_selectedHandleFigure' /\ ~m_guideFigure'
          /\ m_brush' = NULL
          /\ m_index' = GoneIndex
          /\ m_state' = ACTIVE
          /\ brushes' = brushes ]_vars

\* A drag that moved the first brush was ended and its transaction closed.
C10_Witness ==
    /\ lastOp = "doEndLeftDrag" /\ m_state = ACTIVE
    /\ undoDepth = 0 /\ m_brush = NULL
    /\ brushes[1] # <<WorldMin, WorldMin + GridSize, WorldMax>>
    /\ figures = OnlyUnselectedShown

\* C11: deactivated in ACTIVE, SELECTED or DRAGGING enters INACTIVE and leaves
\* none of the tool's figures (unselected aggregate, selected-handle figure,
\* guide figure) registered with the renderer.
C11_DeactivateRemovesVisuals ==
    [][ (Ran("deactivated") /\ m_state # INACTIVE) =>
          /\ m_state' = INACTIVE
          /\ figures' = NoFigures ]_vars

\* C12: whenever the tool is INACTIVE the active brush is unset and the
\* active handle index is -1.
C12_InactiveIsCleared ==
    m_state = INACTIVE => (m_brush = NULL /\ m_index = GoneIndex)

\* C13: undo begin is never called while a transaction the tool opened earlier
\* is still open.
C13_NoNestedTransaction ==
    [][ undoDepth' > undoDepth => undoDepth = 0 ]_vars

----------------------------------------------------------------------------
(* Notifications *)

Notification == {"brushesDidChange", "selectionChanged"}

\* C15 (as stated): every brushesDidChange and every selectionChanged received
\* in ACTIVE, SELECTED or DRAGGING refreshes the figures of that mode,
\* whatever brushes the notification carries.
C15_Original ==
    [][ (lastOp' \in Notification /\ m_state # INACTIVE) =>
          refreshed' = (IF m_state = ACTIVE THEN "handle" ELSE "selected") ]_vars

\* C15 (amended): every selectionChanged, and every brushesDidChange whose
\* list holds a selected brush, refreshes the figures of the mode (the
\* selected-handle and guide figures then show the active handle); a
\* brushesDidChange whose list holds no selected brush refreshes nothing.
C15_NotificationRefreshes ==
    [][ (lastOp' \in Notification /\ m_state # INACTIVE) =>
          IF Ran("selectionChanged") \/ carriedSelected'
          THEN /\ refreshed' = (IF m_state = ACTIVE THEN "handle" ELSE "selected")
               /\ m_state # ACTIVE => depicted' = <<m_brush, m_index>>
               /\ UNCHANGED <<toolVars, figures, brushes, undoDepth>>
          ELSE /\ refreshed' = "none"
               /\ UNCHANGED <<toolVars, figVars, brushes, undoDepth>> ]_vars

\* A brushesDidChange with a selected brush brought the selected-handle
\* figures of a drag, begun on another handle than shown, up to date.
C15_Witness ==
    /\ lastOp = "brushesDidChange" /\ carriedSelected /\ refreshed = "selected"
    /\ m_state = DRAGGING /\ depicted = <<m_brush, m_index>>
    /\ initialPoint # movePosition(m_brush, m_index)

\* C16: the tool's listeners are registered (once) exactly while the tool is
\* not INACTIVE, and no notification handler runs in INACTIVE.
C16_ListenersWhileActive ==
    [][ /\ listeners' = (IF m_state' = INACTIVE THEN 0 ELSE 1)
        /\ lastOp' \in Notification => (m_state # INACTIVE /\ listeners = 1) ]_vars

\* A notification was delivered after the tool had been deactivated during a
\* drag and activated again.
C16_Witness ==
    /\ lastOp \in Notification /\ listeners = 1
    /\ m_state = ACTIVE /\ undoDepth = 1

----------------------------------------------------------------------------
(* Assertions compiled out *)

\* A call that breaks the protocol of the modes.
ProtocolViolation ==
    \/ Ran("leftMouseDown") /\ m_state # ACTIVE
    \/ Ran("leftMouseUp") /\ m_state = DRAGGING
    \/ Ran("doBeginLeftDrag") /\ m_state # SELECTED
    \/ Ran("doLeftDrag") /\ m_state # DRAGGING
    \/ Ran("doEndLeftDrag") /\ m_state # DRAGGING
    \/ Ran("activated") /\ m_state # INACTIVE

\* C17: with assert() compiled out, a call that breaks the protocol leaves
\* the mode, the active handle, the figures, the brushes and the undo
\* transaction state as they were.
C17_ViolationIsNoOp ==
    [][ (ndebug /\ ProtocolViolation) =>
          UNCHANGED <<toolVars, figVars, brushes, undoDepth>> ]_vars

----------------------------------------------------------------------------
(* A rejected step followed by a valid one *)

\* The dragged brush is as it was when the drag began and no move of this
\* drag has advanced the reference point.
AtDragBaseline ==
    /\ m_state = DRAGGING /\ m_index # GoneIndex
    /\ brushes[m_brush] = dragBase
    /\ referencePoint = initialPoint

\* C18: in a drag, a step d1 whose move is rejected leaves the brush exactly
\* the pre-drag brush and referencePoint the initial point; a following step
\* d2 that moves takes its delta from the pre-drag handle position and the
\* initial point and yields the pre-drag brush with that delta applied to the
\* handle; doEndLeftDrag commits that brush unchanged.
C18_RejectedThenValid ==
    [][ /\ (/\ Ran("doLeftDrag") /\ AtDragBaseline
            /\ moveLog' # <<>> /\ ~Move'.moved) =>
               /\ brushes' = brushes
               /\ AtDragBaseline'
               /\ rejected'
        /\ (/\ Ran("doLeftDrag") /\ AtDragBaseline /\ rejected
            /\ moveLog' # <<>> /\ Move'.moved) =>
               /\ \E c \in Points :
                     Move'.delta = moveDelta(dragBase[m_index + 1], c - initialPoint)
               /\ brushes'[m_brush] = moveVertex(dragBase, m_index, Move'.delta).verts
               /\ \A b \in Brushes \ {m_brush} : brushes'[b] = brushes[b]
               /\ applied' = Move'.delta
        /\ (Ran("doEndLeftDrag") /\ m_state = DRAGGING) => brushes' = brushes ]_vars

\* After a rejected first step, the second step of a drag moved the handle
\* of the pre-drag brush.
C18_Witness ==
    /\ lastOp = "doLeftDrag" /\ ret /\ m_state = DRAGGING
    /\ rejected /\ moveLog # <<>> /\ moveLog[1].moved
    /\ applied = moveLog[1].delta
    /\ referencePoint = initialPoint + moveLog[1].delta
    /\ brushes[m_brush] = moveVertex(dragBase, moveLog[1].index, moveLog[1].delta).verts
    /\ brushes[m_brush] # dragBase

\* C14: a drag in progress that is stopped from outside, that is, otherwise
\* than by doEndLeftDrag committing it, has its transaction cancelled (it is
\* no longer open) and leaves the dragged brush exactly as it was when the
\* drag began.
C14_CancelRollsBack ==
    [][ (m_state = DRAGGING /\ m_state' # DRAGGING /\ ~Ran("doEndLeftDrag")) =>
            /\ undoDepth' = undoDepth - 1
            /\ m_brush \in Brushes => brushes'[m_brush] = dragBase ]_vars


\* C19: csgConvexMerge calls a collaborator only when at least 2 brushes and
\* only brushes are selected, or at least 2 brush faces are selected, or the
\* active vertex, edge or face tool reports that it can merge; it then makes
\* exactly one call, to the active tool that can merge or else to the
\* document. Otherwise it makes no call and leaves document, undo stack and
\* selection as they were.
C19_ConvexMergeGuarded ==
    [][ csgConvexMerge =>
          LET allowed == \/ selection.faces >= 2
                         \/ selection.brushes >= 2 /\ selection.others = 0
                         \/ activeTool \in HandleTools /\ handleSelection > 1
          IN  IF allowed
              THEN calls' = << IF activeTool \in HandleTools /\ handleSelection > 1
                               THEN activeTool \o "Tool.csgConvexMerge"
                               ELSE "document.csgConvexMerge" >>
              ELSE /\ calls' = <<>>
                   /\ UNCHANGED <<document, undoStack, selection>> ]_vars

\* A convex merge was refused with exactly one brush selected and nothing
\* else.
C19_Witness ==
    /\ lastOp = "csgConvexMerge"
    /\ calls = <<>>
    /\ selection = [brushes |-> 1, others |-> 0, faces |-> 0]
    /\ ~(activeTool \in HandleTools /\ handleSelection > 1)

\* C20: csgSubtract and csgHollow call the document only when the selection
\* consists only of brushes and has at least 1; csgIntersect only when it
\* consists only of brushes and has more than 1. In every other selection
\* state the command makes no call and document and undo stack stay as they
\* were.
C20_CsgRefused ==
    [][ /\ \A op \in {"csgSubtract", "csgHollow"} :
              (IF op = "csgSubtract" THEN csgSubtract ELSE csgHollow) =>
                 IF selection.others = 0 /\ selection.brushes >= 1
                 THEN calls' = << "document." \o op >>
                 ELSE calls' = <<>> /\ UNCHANGED <<document, undoStack, selection>>
        /\ csgIntersect =>
              IF selection.others = 0 /\ selection.brushes > 1
              THEN calls' = << "document.csgIntersect" >>
              ELSE calls' = <<>> /\ UNCHANGED <<document, undoStack, selection>> ]_vars

\* An intersection was refused with exactly one brush selected, a selection
\* with which a subtraction is carried out.
C20_Witness ==
    /\ lastOp = "csgIntersect"
    /\ calls = <<>>
    /\ selection = [brushes |-> 1, others |-> 0, faces |-> 0]
    /\ document = 0
    /\ undoStack = <<>>

----------------------------------------------------------------------------
(* Brush moves are all or nothing *)

\* The extent of a brush along the model's axis (its volume).
Extent(verts) == verts[Len(verts)] - verts[1]

\* The candidate a move of the handle by delta proposes.
Candidate(verts, index, delta) ==
    SortedSeq((Range(verts) \ {verts[index + 1]}) \cup {verts[index + 1] + delta})

\* C21: a brush move never applies a candidate in part. A move whose
\* candidate is invalid reports moved = false; a move that reports moved =
\* false returns the index it was given and leaves every brush exactly as it
\* was; a move that reports moved = true leaves the moved brush equal to the
\* whole candidate and the other brushes as they were. No brush ever has an
\* extent of 0 or less.
C21_MoveAllOrNothing ==
    [][ /\ (Ran("doLeftDrag") /\ moveLog' # <<>>) =>
              LET cand == Candidate(brushes[Move'.brush], Move'.index, Move'.delta)
              IN  /\ ~ValidVertices(cand) => ~Move'.moved
                  /\ ~Move'.moved => (Move'.newIndex = Move'.index /\ brushes' = brushes)
                  /\ Move'.moved =>
                        brushes' = [brushes EXCEPT ![Move'.brush] = cand]
        /\ \A b \in Brushes : Extent(brushes'[b]) > 0 /\ Len(brushes'[b]) >= MinVertices
      ]_vars

\* A move that would have collapsed the second brush into a single vertex
\* was rejected and left it as it was.
C21_Witness ==
    /\ lastOp = "doLeftDrag" /\ moveLog # <<>>
    /\ ~moveLog[1].moved /\ moveLog[1].brush = 2
    /\ moveLog[1].newIndex = moveLog[1].index
    /\ ~ValidVertices(Candidate(brushes[2], moveLog[1].index, moveLog[1].delta))
    /\ brushes[2] = dragBase

----------------------------------------------------------------------------
(* A step that merges the handle away *)

\* C22: a drag step returns abort exactly when its move returned index -1,
\* moved or not. A step whose move was applied but merged the handle into a
\* neighbour returns abort, leaves referencePoint and the selected-handle
\* figures as they were and keeps the transaction open with the move applied;
\* doEndLeftDrag then ends the transaction with the brushes as the move left
\* them.
C22_AbortOnMerge ==
    [][ /\ (Ran("doLeftDrag") /\ m_state = DRAGGING) =>
              /\ ret' = FALSE <=> (moveLog' # <<>> /\ Move'.newIndex = GoneIndex)
              /\ (moveLog' # <<>> /\ Move'.newIndex = GoneIndex /\ Move'.moved) =>
                    /\ brushes'[m_brush] # brushes[m_brush]
                    /\ brushes'[m_brush] = moveVertex(brushes[m_brush], m_index, Move'.delta).verts
                    /\ UNCHANGED <<referencePoint, figVars, undoDepth, m_state>>
        /\ (Ran("doEndLeftDrag") /\ m_state = DRAGGING /\ m_index = GoneIndex) =>
              /\ brushes' = brushes
              /\ undoDepth' = undoDepth - 1 ]_vars

\* A drag whose step merged a handle of the first brush into its neighbour
\* was ended: the brush has one vertex less and the transaction is closed.
C22_Witness ==
    /\ lastOp = "doEndLeftDrag" /\ m_state = ACTIVE /\ undoDepth = 0
    /\ Len(brushes[1]) = 2

----------------------------------------------------------------------------
(* Invariants of the modes *)

\* C23: whenever the tool is in SELECTED or DRAGGING the active brush is set
\* and the active handle index is at least 0.
C23_HandleValid ==
    m_state \in {SELECTED, DRAGGING} => (m_brush # NULL /\ m_index >= 0)

\* C24: a transaction opened by the tool is open exactly while the tool is in
\* DRAGGING.
C24_TransactionIffDragging ==
    (undoDepth > 0) <=> (m_state = DRAGGING)

\* C25: in ACTIVE exactly the unselected aggregate is registered with the
\* renderer, in SELECTED and DRAGGING exactly the selected-handle and guide
\* figures; the two kinds are never registered together and no figure is
\* registered more than once.
C25_VisualsMatchMode ==
    /\ m_state = ACTIVE => figures = OnlyUnselectedShown
    /\ m_state \in {SELECTED, DRAGGING} => figures = OnlySelectedShown
    /\ ~(figures.handle > 0 /\ (figures.selected > 0 \/ figures.guide > 0))
    /\ figures.handle <= 1 /\ figures.selected <= 1 /\ figures.guide <= 1

\* C26: in SELECTED and DRAGGING the selected-handle and guide figures show
\* the active brush and index.
C26_VisualsDepictHandle ==
    m_state \in {SELECTED, DRAGGING} => depicted = <<m_brush, m_index>>

----------------------------------------------------------------------------
(* Routing of the frame's commands *)

\* C27: deleteSelection and csgConvexMerge each make at most one call. With
\* the clip tool active deleteSelection calls nothing but the clip tool; with
\* a vertex, edge or face tool active it calls nothing but that tool's
\* removeSelection, which it does call (emptying the tool's selection) when
\* the tool has a selection, and it never calls the document's
\* deleteObjects. csgConvexMerge calls the active handle tool when that tool
\* can merge and the document only otherwise.
C27_OneTarget ==
    [][ /\ deleteSelection =>
              /\ Len(calls') <= 1
              /\ activeTool = "clip" =>
                    \A k \in 1..Len(calls') : calls'[k] = "clipTool.removeLastPoint"
              /\ activeTool \in HandleTools =>
                    /\ \A k \in 1..Len(calls') :
                          calls'[k] = activeTool \o "Tool.removeSelection"
                    /\ handleSelection > 0 =>
                          (Len(calls') = 1 /\ handleSelection' = 0)
              /\ activeTool \notin HandleTools \cup {"clip"} =>
                    \A k \in 1..Len(calls') : calls'[k] = "document.deleteObjects"
        /\ csgConvexMerge =>
              /\ Len(calls') <= 1
              /\ (activeTool \in HandleTools /\ handleSelection > 1) =>
                    calls' = << activeTool \o "Tool.csgConvexMerge" >>
              /\ ~(activeTool \in HandleTools /\ handleSelection > 1) =>
                    \A k \in 1..Len(calls') : calls'[k] = "document.csgConvexMerge" ]_vars

\* With a vertex tool active and brushes selected in the document,
\* deleteSelection removed the tool's selection.
C27_Witness ==
    /\ lastOp = "deleteSelection"
    /\ calls = <<"vertexTool.removeSelection">>
    /\ activeTool = "vertex" /\ handleSelection = 0
    /\ selection.brushes > 0

\* canDeleteSelection holds: the clip tool is active and can remove its last
\* point, a vertex, edge or face tool is active and can remove its selection,
\* the create-primitive-brush tool is active, or no tool is active while the
\* map view has the focus and nodes are selected.
CanDelete ==
    \/ activeTool \in HandleTools \cup {"clip"} /\ handleSelection > 0
    \/ activeTool = "createPrimitiveBrush"
    \/ activeTool = "none" /\ mapViewFocus /\ selection.brushes + selection.others > 0

RemovalCalls ==
    {"clipTool.removeLastPoint", "vertexTool.removeSelection",
     "edgeTool.removeSelection", "faceTool.removeSelection", "document.deleteObjects"}

----------------------------------------------------------------------------
(* Undo during a drag *)

\* What undo does besides undoing a command or cancelling a drag: it calls
\* undoCommand only when canUndo holds and no view cancelled a drag.
UndoCallsWhenAllowed ==
    undo =>
       /\ (\E k \in 1..Len(calls') : calls'[k] = "document.undoCommand")
             <=> (Len(undoStack) > 0 /\ mouseDrag = "none")
       /\ (Len(undoStack) > 0 /\ mouseDrag # "none") =>
             (mouseDrag' = "none" /\ document' = dragStart /\ undoStack' = undoStack)

\* C29 (as stated): undoCommand is called only when canUndo holds and neither
\* view cancelled a drag, and a drag in progress is cancelled on every undo
\* request, whether or not the document can undo.
C29_Original ==
    [][ /\ UndoCallsWhenAllowed
        /\ (undo /\ mouseDrag # "none") => mouseDrag' = "none" ]_vars

\* C29 (amended): undoCommand is called only when canUndo holds and neither
\* view cancelled a drag; a drag in progress is cancelled instead when canUndo
\* holds; when canUndo does not hold undo makes no call and a drag in progress
\* goes on.
C29_UndoDuringDrag ==
    [][ /\ UndoCallsWhenAllowed
        /\ (undo /\ Len(undoStack) = 0) =>
              /\ calls' = <<>>
              /\ UNCHANGED <<mouseDrag, dragStart, document, undoStack>> ]_vars

\* An undo request with nothing to undo left the inspector's drag going.
C29_Witness ==
    /\ lastOp = "undo"
    /\ calls = <<>>
    /\ mouseDrag = "inspector"
    /\ undoStack = <<>>
    /\ document # dragStart

----------------------------------------------------------------------------
(* Grid size *)

\* C30: under any sequence of incGridSize, decGridSize and grid choices the
\* grid size stays within MinSize..MaxSize and the grid choice's index is the
\* size minus MinSize; incGridSize at MaxSize and decGridSize at MinSize
\* change nothing, otherwise they change the size by one; a grid choice sets
\* the size to its index plus MinSize.
C30_GridSizeInRange ==
    [][ /\ gridSize' \in MinSize..MaxSize
        /\ gridChoice' = gridSize' - MinSize
        /\ incGridSize =>
              gridSize' = (IF gridSize = MaxSize THEN gridSize ELSE gridSize + 1)
        /\ decGridSize =>
              gridSize' = (IF gridSize = MinSize THEN gridSize ELSE gridSize - 1)
        /\ gridChoiceActivated =>
              \E index \in 0..(MaxSize - MinSize) :
                  gridChoice' = index /\ gridSize' = index + MinSize ]_vars

\* incGridSize at MaxSize changed nothing.
C30_Witness ==
    /\ lastOp = "incGridSize"
    /\ calls = <<>>
    /\ gridBefore = MaxSize /\ gridSize = MaxSize
    /\ gridChoice = MaxSize - MinSize

\* The call was made in the step and got the given answer.
Answered(c, a) == \E k \in 1..Len(calls') : calls'[k] = c /\ answers'[k] = a
Made(c) == c \in Range(calls')

\* The command returned in the step (it may have waited in dialogs before).
Finished(op) == lastOp' = op /\ command' = NoCommand

\* The compilation dialog is out of the way: none was open, or it closed.
DialogOutOfTheWay == ~compilationDialog \/ Answered("compilationDialog.close", "true")

\* The document's changes are settled: it was unmodified, the user discarded
\* the changes, or the user had them saved and saving succeeded.
ChangesSettled ==
    \/ ~modified
    \/ Answered("QMessageBox.question", "No")
    \/ /\ Answered("QMessageBox.question", "Yes")
       /\ \/ Answered("document.saveDocument", "ok")
          \/ Answered("document.saveDocumentAs", "ok")

\* C31: a close request is accepted, and the frame removed from the frame
\* manager, exactly if the compilation dialog closed (or none was open) and
\* the changes were confirmed or discarded; otherwise the event is ignored and
\* the frame stays registered, and the user is not asked about the changes
\* when the compilation dialog refuses to close.
C31_CloseOnlyWhenSettled ==
    [][/\ (Ran("closeEvent") /\ ~Finished("closeEvent")) =>
            (registered' /\ ~Made("event.accept") /\ ~Made("frameManager.removeFrame"))
       /\ Finished("closeEvent") =>
         LET accepted == Made("event.accept")
         IN  /\ accepted <=> (DialogOutOfTheWay /\ ChangesSettled)
             /\ accepted <=> (Made("frameManager.removeFrame") /\ ~registered')
             /\ ~accepted => (Made("event.ignore") /\ registered' /\ lifecycle' = "open")
             /\ Answered("compilationDialog.close", "false") =>
                    /\ ~Made("QMessageBox.question")
                    /\ ~Made("document.saveDocument")
                    /\ ~Made("QFileDialog.getSaveFileName")]_vars

\* A close request with a compilation dialog open and a modified document was
\* accepted after the dialog closed and the user had the changes saved.
C31_Witness ==
    /\ lastOp = "closeEvent"
    /\ ~registered
    /\ calls[1] = "compilationDialog.close"
    /\ calls[2] = "QMessageBox.question" /\ answers[2] = "Yes"

\* What newDocument and openDocument do in a step (a stretch between
\* dialogs) whatever the document's fate: no stretch before the last
\* replaces or changes the document; the document is replaced exactly if
\* the changes are settled and then the compilation dialog is out of the
\* way, and the command returns true exactly if a new map is in place;
\* otherwise it returns false with the map in place; the compilation dialog
\* is not asked when the changes are not settled; a modified document is
\* never replaced after Cancel or a failed save, and stays modified.
ReplacedOnlyWhenSettled ==
    /\ ((Ran("newDocument") \/ Ran("openDocument"))
           /\ ~(Finished("newDocument") \/ Finished("openDocument"))) =>
         (loaded' = loaded /\ modified' = modified /\ persistent' = persistent
            /\ ~Made("document.newDocument") /\ ~Made("document.loadDocument"))
    /\ (Finished("newDocument") \/ Finished("openDocument")) =>
         LET replaced == Made("document.newDocument") \/ Made("document.loadDocument")
             failedSave == \/ Answered("document.saveDocument", "threw")
                           \/ Answered("document.saveDocumentAs", "threw")
                           \/ Answered("QFileDialog.getSaveFileName", "")
         IN  /\ replaced <=> (ChangesSettled /\ DialogOutOfTheWay)
             /\ ~replaced => (Answered("return", "false") /\ loaded' = loaded)
             /\ ~ChangesSettled => ~Made("compilationDialog.close")
             /\ (modified /\ (Answered("QMessageBox.question", "Cancel") \/ failedSave))
                    => (~replaced /\ loaded' = loaded /\ modified')
             /\ loaded' # loaded <=> Answered("return", "true")

\* The document was saved in the step.
SavedInStep ==
    Answered("document.saveDocument", "ok") \/ Answered("document.saveDocumentAs", "ok")

\* The command returned in the step without replacing the document.
ReturnedWithoutReplacing ==
    /\ Finished("newDocument") \/ Finished("openDocument")
    /\ ~Made("document.newDocument") /\ ~Made("document.loadDocument")

\* C32 (as stated): newDocument and openDocument replace the document only
\* if the changes were confirmed or discarded and then the compilation
\* dialog closed; otherwise they return false and leave the document
\* untouched: it is not replaced, not saved, and as modified as before. A
\* modified document is never replaced after Cancel or after a failed save.
C32_Original ==
    [][/\ ReplacedOnlyWhenSettled
       /\ ReturnedWithoutReplacing =>
            (loaded' = loaded /\ modified' = modified /\ persistent' = persistent
               /\ ~SavedInStep)]_vars

\* C32 (amended): newDocument and openDocument replace the document only if
\* the changes were confirmed or discarded and then the compilation dialog
\* closed; otherwise they return false and the document is not replaced. It
\* is then untouched unless the user answered Yes and saving succeeded while
\* the compilation dialog refused to close: in that case the document has
\* been saved and is no longer modified. A modified document is never
\* replaced after Cancel or after a failed save.
C32_ReplaceOnlyWhenSettled ==
    [][/\ ReplacedOnlyWhenSettled
       /\ (ReturnedWithoutReplacing /\ ~SavedInStep) =>
            (loaded' = loaded /\ modified' = modified /\ persistent' = persistent)
       /\ (ReturnedWithoutReplacing /\ SavedInStep) =>
            /\ modified /\ Answered("QMessageBox.question", "Yes")
            /\ Answered("compilationDialog.close", "false")
            /\ ~modified' /\ persistent' /\ loaded' = loaded]_vars

\* A map was to be opened over a modified document: the user had the changes
\* saved, the compilation dialog refused to close, and openDocument returned
\* false with the old map in place, saved.
C32_Witness ==
    /\ lastOp = "openDocument"
    /\ command = NoCommand
    /\ loaded = 0
    /\ ~modified
    /\ "QMessageBox.question" \in Range(calls)
    /\ \E k \in 1..Len(calls) : calls[k] = "compilationDialog.close" /\ answers[k] = "false"

\* The order the destructor keeps: the final autosave comes only after the
\* last child is gone, the document is released only after the final autosave.
DestructionOrdered ==
    /\ finalAutosave => children = <<>>
    /\ ~documentHeld => (finalAutosave /\ children = <<>>)

\* C36: on destruction the tool is deactivated and the connections are
\* disconnected, then the children are deleted last to first, then one final
\* autosave is triggered, and only then the document is released; children
\* are deleted and the autosave triggered while the document is still held.
C36_DestructionOrder ==
    [][/\ DestructionOrdered'
       /\ (lifecycle \notin {"open", "closed"} /\ children' # children) =>
            /\ Ran("deleteChildren")
            /\ children' = SubSeq(children, 1, Len(children) - 1)
            /\ activeTool = "none" /\ ~connected
            /\ documentHeld /\ documentHeld'
       /\ finalAutosave' # finalAutosave =>
            (~finalAutosave /\ documentHeld /\ documentHeld')
       /\ documentHeld' # documentHeld => ~documentHeld'
       /\ Ran("finalAutosave") => ~finalAutosave]_vars

\* The frame was destroyed to the end and its document released.
C36_Witness ==
    /\ lifecycle = "gone"
    /\ ~documentHeld
    /\ finalAutosave
    /\ children = <<>>

\* Where in the step's calls the given call was made.
Pos(c) == CHOOSE k \in 1..Len(calls') : calls'[k] = c

\* C33: pasteAtCursorPosition opens a transaction exactly if the paste yields
\* nodes and some are selected; inside it the pasted nodes are hidden while the
\* delta is picked, then shown and selected again before they are translated;
\* the transaction is committed if the translation succeeds and cancelled
\* otherwise, and a cancelled repositioning leaves the document as pasted.
C33_PasteRepositionsAllOrNothing ==
    [][Ran("pasteAtCursorPosition") =>
         LET opened == Made("Transaction")
             translated == Answered("document.translateObjects", "true")
         IN  /\ opened <=> (Answered("paste", "Node")
                               /\ selection'.brushes + selection'.others > 0)
             /\ ~opened =>
                   /\ ~Made("document.hide") /\ ~Made("document.translateObjects")
                   /\ ~Made("transaction.commit") /\ ~Made("transaction.cancel")
             /\ opened =>
                   /\ Pos("paste") < Pos("Transaction")
                   /\ Pos("Transaction") < Pos("document.hide")
                   /\ Pos("document.hide") < Pos("mapView.pasteObjectsDelta")
                   /\ Answered("mapView.pasteObjectsDelta", "hidden")
                   /\ Pos("mapView.pasteObjectsDelta") < Pos("document.show")
                   /\ Pos("document.show") < Pos("document.selectNodes")
                   /\ Pos("document.selectNodes") < Pos("document.translateObjects")
                   /\ Made("transaction.commit") <=> translated
                   /\ Made("transaction.cancel") <=> ~translated
                   /\ calls'[Len(calls')] \in {"transaction.commit", "transaction.cancel"}
                   /\ Pos("document.translateObjects") = Len(calls') - 1
                   /\ document' = (IF translated THEN document + 2 ELSE document + 1)
                   /\ Len(undoStack') = Len(undoStack) + (IF translated THEN 2 ELSE 1)]_vars

\* Nodes were pasted and selected, but translating them failed: the
\* transaction was cancelled.
C33_Witness ==
    /\ lastOp = "pasteAtCursorPosition"
    /\ "transaction.cancel" \in Range(calls)
    /\ "mapView.pasteObjectsDelta" \in Range(calls)
    /\ selection.brushes > 0

\* The calls of updateUndoRedoActions that notifications have queued and the
\* event loop has not dispatched yet, and the number of notifications whose
\* call has been dispatched (the queue is first in, first out).
Waiting == Cardinality({k \in 1..Len(pending) : pending[k] = Deferred})
Dispatched == notified - Waiting

\* When updateUndoRedoActions runs and when it does not: a notification
\* queues the call with QTimer::singleShot and returns without running it,
\* leaving the actions as they were, with its command still to modify the
\* stacks; every run is made from the event loop with no command in progress
\* (for a queued call, or at once for a focus change) and leaves the actions
\* agreeing with the document's undo and redo stacks; a queued call leaves
\* the queue only by being dispatched, which runs it.
UpdateNeverInsideNotification ==
    /\ notified' # notified =>
          /\ notified' = notified + 1
          /\ Made("QTimer.singleShot") /\ ~Made("updateUndoRedoActions")
          /\ undoAction' = undoAction /\ updated' = updated
          /\ Waiting' = Waiting + 1
          /\ pending'[Len(pending')] = Deferred
          /\ phase' # "idle"
    /\ (updated' # updated \/ undoAction' # undoAction) => Made("updateUndoRedoActions")
    /\ Made("updateUndoRedoActions") =>
          /\ phase = "idle" /\ phase' = "idle"
          /\ notified' = notified
          /\ updated' = updated + 1
          /\ undoAction' = [undo |-> Len(undoStack') > 0, redo |-> redoDepth' > 0]
          /\ UNCHANGED <<document, undoStack, redoDepth>>
    /\ Waiting' < Waiting =>
          /\ Ran("dispatchDeferred") /\ Made("updateUndoRedoActions")
          /\ Head(pending) = Deferred /\ Waiting' = Waiting - 1
          /\ lifecycle \in {"open", "closed"}

\* C34 (as stated): after every transactionDone or transactionUndone
\* notification the call it queued is dispatched and updateUndoRedoActions
\* runs (the n-th notification is followed by the n-th dispatch), and
\* updateUndoRedoActions runs only from the event loop, after the command
\* that notified has modified the stacks and returned, never inside the
\* notification.
C34_Original ==
    /\ \A n \in 1..MaxNotified : (notified >= n) ~> (Dispatched >= n)
    /\ [][UpdateNeverInsideNotification]_vars

\* C34 (amended): after every transactionDone or transactionUndone
\* notification the call it queued is dispatched and updateUndoRedoActions
\* runs, unless the frame is destroyed first, which drops the call;
\* updateUndoRedoActions runs only from the event loop, after the command
\* that notified has modified the stacks and returned, never inside the
\* notification.
C34_UpdateDeferred ==
    /\ \A n \in 1..MaxNotified :
          (notified >= n) ~> (Dispatched >= n \/ lifecycle \notin {"open", "closed"})
    /\ [][UpdateNeverInsideNotification]_vars

\* An undo was notified and the deferred update has since disabled the undo
\* action and enabled the redo action.
C34_Witness ==
    /\ lastOp = "dispatchDeferred"
    /\ notified = 2 /\ Dispatched = 2
    /\ undoAction = [undo |-> FALSE, redo |-> TRUE]

\* C35: the periodic autosave is triggered only when no mouse button is
\* pressed and more than 2 seconds have passed since the last mouse press,
\* release, double click or move or key press or release sent to the frame or
\* to one of its children (or since the frame was made, before any input).
C35_AutosaveOnlyWhenIdle ==
    [][(Ran("triggerAutosave") /\ Made("autosaver.triggerAutosave")) =>
          /\ ~mouseButtons
          /\ now - inputAt > AutosaveDelay]_vars

\* The autosave was triggered after input that came more than two seconds
\* before.
C35_Witness ==
    /\ lastOp = "triggerAutosave"
    /\ calls = <<"autosaver.triggerAutosave">>
    /\ inputAt > 0
====
